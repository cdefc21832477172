----------------------------- MODULE RelayProofs -----------------------------
(***************************************************************************)
(* Proofs about Relay, for every set of peers, every size of the tables    *)
(* and every set of circumstances: the node never loses its place in the   *)
(* stream of frames (StreamAligned), a packet to a peer is under a key     *)
(* agreed with that peer and, of the dongle, of that peer's connection     *)
(* (RightPeer), and every peer of the map heard over the relay has been    *)
(* handed to the data plane (KnownPeersProbed).                            *)
(*                                                                         *)
(* The first two are one argument.  What a peer sends carries that peer's  *)
(* keys; so the table of the dongle has, for a peer, a key of that peer,   *)
(* and each tunnel of the browser node a key of the peer it belongs to,    *)
(* however they are replaced or thrown out; so what goes back does too.    *)
(* That needs to know what is in the stream, which is a row of frames      *)
(* (Framed): where one ends another begins, and only a closed connection   *)
(* cuts one.                                                               *)
(***************************************************************************)
EXTENDS Relay, SequenceFacts, TLAPS

-----------------------------------------------------------------------------
(* Packets and the stream *)

KeysOf(p) == {p} \X (1 .. KeyMax)

PacketOf(p, clients) ==
    [msg : {"init", "resp"}, key : KeysOf(p)]
    \cup [msg : {"data"}, key : KeysOf(p),
          body : {"req", "ack", "seg", "ping", "pong", "none", "rst"}, client : clients]
    \cup [msg : {"disco"}, what : {"ping", "pong", "cmm"}]

Frame ==
    [type : {"101"}, len : {0}]
    \cup [type : {"key", "503", "keepalive", "huge"}, len : Nat]
    \cup UNION {[type : {"recv"}, len : {1}, src : {p}, pkt : PacketOf(p, {Nobody})] :
                  p \in Peers}

Unit == [part : Nat, frame : Frame]

IsStream(s) ==
    /\ s = [units |-> s.units, arrived |-> s.arrived, ends |-> s.ends,
            opened |-> s.opened, eof |-> s.eof]
    /\ s.units \in Seq(Unit) /\ s.arrived \in 0 .. Len(s.units) /\ s.eof \in BOOLEAN

\* The stream begins with a header, where a frame ends another one begins, and as
\* long as the relay is there the last frame is whole.
Framed(s) ==
    /\ s.units # <<>> => s.units[1].part = 0
    /\ \A h, n \in 1 .. Len(s.units) :
          s.units[h].part = 0 /\ n = h + s.units[h].frame.len + 1 => s.units[n].part = 0
    /\ \A h \in 1 .. Len(s.units) :
          s.units[h].part = 0 /\ ~s.eof => h + s.units[h].frame.len <= Len(s.units)

LEMMA FrameLen == \A f \in Frame : f.len \in Nat
  BY DEF Frame

\* A frame or a header without payload is taken from the front.
LEMMA TakeKeeps ==
    ASSUME NEW s, IsStream(s), Framed(s), s.arrived > First(s).len, s.arrived > 0
    PROVE  LET t == Take(s, First(s).len + 1) IN IsStream(t) /\ Framed(t)
<1> DEFINE k == First(s).len + 1
           u == s.units
           t == Take(s, k)
           v == SubSeq(u, k + 1, Len(u))
<1>1. u \in Seq(Unit) /\ Len(u) \in Nat /\ s.arrived \in 0 .. Len(u)
  BY LenProperties DEF IsStream
<1>l. \A h \in 1 .. Len(u) : u[h].frame.len \in Nat
  <2>1. \A h \in 1 .. Len(u) : u[h] \in Unit
    BY <1>1, ElementOfSeq
  <2> QED
    BY <2>1, FrameLen DEF Unit
<1>2. 1 \in 1 .. Len(u) /\ u # <<>> /\ k \in Nat
  <2>1. 1 \in 1 .. Len(u) /\ u # <<>>
    BY <1>1, EmptySeq
  <2> QED
    BY <1>l, <2>1 DEF First
<1>k. k = 1 + u[1].frame.len
  BY <1>l, <1>2 DEF First
<1>3. k \in 0 .. Len(u) /\ k <= s.arrived
  <2>1. PICK m \in Nat : m = First(s).len
    BY <1>l, <1>2 DEF First
  <2>2. s.arrived > m /\ k = m + 1
    BY <2>1
  <2> HIDE DEF k
  <2> QED
    BY <1>1, <2>1, <2>2
<1>4. /\ v \in Seq(Unit) /\ Len(v) = Len(u) - k
      /\ \A i \in 1 .. Len(u) - k : v[i] = u[i + k]
  BY <1>1, <1>3, SuffixFacts
<1> HIDE DEF v
<1>5. t.units = v /\ t.arrived = s.arrived - k /\ t.eof = s.eof /\ IsStream(t)
  <2> DEFINE e == OpenedTo(s, k)
             x == {i - k : i \in {y \in s.ends : y > k}}
  <2>1. t = [s EXCEPT !.units = v, !.arrived = s.arrived - k, !.opened = e - k, !.ends = x]
    BY DEF Take, Rest, v
  <2> HIDE DEF e, x, k, t
  <2>2. t = [units |-> v, arrived |-> s.arrived - k, ends |-> x,
             opened |-> e - k, eof |-> s.eof]
    BY <2>1 DEF IsStream
  <2>3. t.units = v /\ t.arrived = s.arrived - k /\ t.eof = s.eof /\ t.ends = x
        /\ t.opened = e - k
    BY <2>2
  <2>4. s.arrived - k \in 0 .. Len(v) /\ s.eof \in BOOLEAN
    BY <1>1, <1>2, <1>3, <1>4 DEF IsStream
  <2> QED
    BY <1>4, <2>2, <2>3, <2>4 DEF IsStream
<1> HIDE DEF k
<1>6. v # <<>> => v[1].part = 0
  <2>1. v # <<>> => Len(v) # 0
    BY <1>4, EmptySeq
  <2>2. u[1].part = 0
    BY <1>2 DEF Framed
  <2>3. v # <<>> => k + 1 \in 1 .. Len(u) /\ v[1] = u[k + 1]
    BY <1>1, <1>2, <1>4, <2>1
  <2>4. k + 1 = 1 + u[1].frame.len + 1
    BY <1>k
  <2> QED
    BY <1>2, <2>2, <2>3, <2>4, Zenon DEF Framed
<1>7. \A i \in 1 .. Len(v) : i + k \in 1 .. Len(u) /\ v[i] = u[i + k]
  BY <1>1, <1>2, <1>4
<1>8. ASSUME NEW h \in 1 .. Len(v), NEW n \in 1 .. Len(v),
             v[h].part = 0, n = h + v[h].frame.len + 1
      PROVE  v[n].part = 0
  <2>1. /\ h + k \in 1 .. Len(u) /\ n + k \in 1 .. Len(u)
        /\ v[h] = u[h + k] /\ v[n] = u[n + k]
    BY <1>7
  <2>2. n + k = (h + k) + u[h + k].frame.len + 1
    <3>1. PICK m \in Nat : m = u[h + k].frame.len
      BY <1>l, <2>1
    <3>2. n = h + m + 1
      BY <1>8, <2>1, <3>1
    <3>3. n + k = (h + k) + m + 1
      BY <1>2, <3>2
    <3> QED
      BY <3>1, <3>3
  <2>3. u[h + k].part = 0
    BY <1>8, <2>1
  <2>4. u[n + k].part = 0
    BY <2>1, <2>2, <2>3 DEF Framed
  <2> QED
    BY <2>1, <2>4
<1>9. ASSUME NEW h \in 1 .. Len(v), v[h].part = 0, ~s.eof
      PROVE  h + v[h].frame.len <= Len(v)
  <2>1. h + k \in 1 .. Len(u) /\ v[h] = u[h + k]
    BY <1>7
  <2>2. PICK m \in Nat : m = u[h + k].frame.len
    BY <1>l, <2>1
  <2>3. (h + k) + m <= Len(u)
    BY <1>9, <2>1, <2>2 DEF Framed
  <2>4. h + m <= Len(v)
    BY <1>1, <1>2, <1>4, <2>3
  <2> QED
    BY <2>1, <2>2, <2>4
<1>10. Framed(t)
  BY <1>5, <1>6, <1>8, <1>9 DEF Framed
<1> QED
  BY <1>5, <1>10 DEF k

\* The relay writes a whole frame behind whole frames.
LEMMA WriteKeeps ==
    ASSUME NEW s, IsStream(s), Framed(s), ~s.eof, NEW f \in Frame
    PROVE  IsStream(Write(s, f)) /\ Framed(Write(s, f)) /\ Write(s, f).eof = s.eof
<1> DEFINE u == s.units
           t == Write(s, f)
           g == Units(f)
           v == u \o g
<1>1. u \in Seq(Unit) /\ Len(u) \in Nat /\ s.arrived \in 0 .. Len(u)
  BY LenProperties DEF IsStream
<1>2. f.len \in Nat
  BY FrameLen
<1>3. /\ g \in Seq(Unit) /\ Len(g) = f.len + 1
      /\ \A i \in 1 .. f.len + 1 : g[i].part = i - 1 /\ g[i].frame = f
  <2>1. g = [i \in 1 .. f.len + 1 |-> [part |-> i - 1, frame |-> f]]
    BY DEF Units
  <2> HIDE DEF g
  <2>2. \A i \in 1 .. f.len + 1 : g[i] = [part |-> i - 1, frame |-> f] /\ i - 1 \in Nat
    BY <1>2, <2>1
  <2>3. \A i \in 1 .. f.len + 1 : g[i] \in Unit /\ g[i].part = i - 1 /\ g[i].frame = f
    <3> TAKE i \in 1 .. f.len + 1
    <3>1. g[i] = [part |-> i - 1, frame |-> f] /\ i - 1 \in Nat
      BY <2>2
    <3> QED
      BY <3>1 DEF Unit
  <2>4. g \in [1 .. f.len + 1 -> Unit]
    BY <2>1, <2>3
  <2>5. g \in Seq(Unit)
    BY <1>2, <2>4, SeqDef
  <2>6. DOMAIN g = 1 .. Len(g) /\ Len(g) \in Nat /\ DOMAIN g = 1 .. f.len + 1
    BY <2>1, <2>5, LenProperties
  <2>7. Len(g) = f.len + 1
    BY <1>2, <2>6
  <2> QED
    BY <2>3, <2>5, <2>7
<1> HIDE DEF g
<1>4. /\ v \in Seq(Unit) /\ Len(v) = Len(u) + Len(g)
      /\ \A i \in 1 .. Len(u) : v[i] = u[i]
      /\ \A i \in Len(u) + 1 .. Len(u) + Len(g) : v[i] = g[i - Len(u)]
  <2>1. u \in Seq(Unit) /\ g \in Seq(Unit)
    BY <1>1, <1>3
  <2> QED
    BY <2>1, ConcatFacts
<1>5. t.units = v /\ t.arrived = s.arrived /\ t.eof = s.eof /\ IsStream(t)
  <2>1. t = [s EXCEPT !.units = v]
    BY DEF Write, g
  <2> HIDE DEF t, v
  <2>2. t = [units |-> v, arrived |-> s.arrived, ends |-> s.ends,
             opened |-> s.opened, eof |-> s.eof]
    BY <2>1 DEF IsStream
  <2>3. t.units = v /\ t.arrived = s.arrived /\ t.eof = s.eof /\ t.ends = s.ends
        /\ t.opened = s.opened
    BY <2>2
  <2>4. s.arrived \in 0 .. Len(v) /\ s.eof \in BOOLEAN
    BY <1>1, <1>2, <1>3, <1>4 DEF IsStream
  <2> QED
    BY <1>4, <2>2, <2>3, <2>4 DEF IsStream
<1> HIDE DEF v, t
<1>6. \A i \in 1 .. Len(v) :
         \/ i \in 1 .. Len(u) /\ v[i] = u[i]
         \/ i - Len(u) \in 1 .. f.len + 1 /\ v[i].part = i - Len(u) - 1 /\ v[i].frame = f
  <2> TAKE i \in 1 .. Len(v)
  <2>1. CASE i <= Len(u)
    BY <1>1, <1>4, <2>1
  <2>2. CASE ~(i <= Len(u))
    <3>1. i - Len(u) \in 1 .. f.len + 1 /\ i \in Len(u) + 1 .. Len(u) + Len(g)
      BY <1>1, <1>2, <1>3, <1>4, <2>2
    <3>2. v[i] = g[i - Len(u)]
      BY <1>4, <3>1
    <3> QED
      BY <1>3, <3>1, <3>2
  <2> QED
    BY <2>1, <2>2
<1>7. Len(v) = Len(u) + f.len + 1
  BY <1>1, <1>2, <1>3, <1>4
<1>8. v # <<>> => v[1].part = 0
  <2>1. CASE u = <<>>
    <3>1. Len(u) = 0
      BY <2>1, EmptySeq
    <3> QED
      BY <1>2, <1>6, <1>7, <3>1
  <2>2. CASE u # <<>>
    <3>1. 1 \in 1 .. Len(u)
      BY <1>1, <2>2, EmptySeq
    <3> QED
      BY <1>4, <2>2, <3>1 DEF Framed
  <2> QED
    BY <2>1, <2>2
<1>9. \A h \in 1 .. Len(u) : u[h].frame.len \in Nat
  <2>1. \A h \in 1 .. Len(u) : u[h] \in Unit
    BY <1>1, ElementOfSeq
  <2> QED
    BY <2>1, FrameLen DEF Unit
<1>10. ASSUME NEW h \in 1 .. Len(v), NEW n \in 1 .. Len(v),
              v[h].part = 0, n = h + v[h].frame.len + 1
       PROVE  v[n].part = 0
  <2>1. CASE h \in 1 .. Len(u) /\ v[h] = u[h]
    <3>1. h + u[h].frame.len <= Len(u)
      BY <1>10, <2>1 DEF Framed
    <3>2. CASE n \in 1 .. Len(u)
      <4>1. u[h].part = 0 /\ n = h + u[h].frame.len + 1 /\ v[n] = u[n]
        BY <1>4, <1>10, <2>1, <3>2
      <4> QED
        BY <2>1, <3>2, <4>1 DEF Framed
    <3>3. CASE n \notin 1 .. Len(u)
      <4>1. PICK m \in Nat : m = u[h].frame.len
        BY <1>9, <2>1
      <4>3. n = h + m + 1 /\ h + m <= Len(u)
        BY <1>10, <2>1, <3>1, <4>1
      <4>2. n = Len(u) + 1
        BY <1>1, <3>3, <4>3
      <4>4. n - Len(u) = 1 /\ n \notin 1 .. Len(u)
        BY <1>1, <4>2
      <4>5. v[n].part = n - Len(u) - 1
        BY <1>6, <4>4
      <4> QED
        BY <4>4, <4>5
    <3> QED
      BY <3>2, <3>3
  <2>2. CASE h - Len(u) \in 1 .. f.len + 1 /\ v[h].part = h - Len(u) - 1 /\ v[h].frame = f
    <3>1. h = Len(u) + 1
      BY <1>1, <1>2, <1>10, <2>2
    <3> QED
      BY <1>1, <1>2, <1>7, <1>10, <2>2, <3>1
  <2> QED
    BY <1>6, <2>1, <2>2
<1>11. ASSUME NEW h \in 1 .. Len(v), v[h].part = 0
       PROVE  h + v[h].frame.len <= Len(v)
  <2>1. CASE h \in 1 .. Len(u) /\ v[h] = u[h]
    <3>1. h + u[h].frame.len <= Len(u)
      BY <1>11, <2>1 DEF Framed
    <3> QED
      BY <1>1, <1>2, <1>7, <1>9, <2>1, <3>1
  <2>2. CASE h - Len(u) \in 1 .. f.len + 1 /\ v[h].part = h - Len(u) - 1 /\ v[h].frame = f
    BY <1>1, <1>2, <1>7, <1>11, <2>2
  <2> QED
    BY <1>6, <2>1, <2>2
<1>12. Framed(t)
  BY <1>5, <1>8, <1>10, <1>11 DEF Framed
<1> QED
  BY <1>5, <1>12 DEF t

LEMMA ArriveKeeps ==
    ASSUME NEW s, IsStream(s), Framed(s), NEW n \in 1 .. Len(s.units) - s.arrived
    PROVE  IsStream(Arrive(s, n)) /\ Framed(Arrive(s, n)) /\ Arrive(s, n).eof = s.eof
<1> DEFINE t == Arrive(s, n)
           x == s.ends \cup {s.arrived + n}
<1>1. t = [s EXCEPT !.arrived = s.arrived + n, !.ends = x]
  BY DEF Arrive
<1> HIDE DEF x, t
<1>2. t = [units |-> s.units, arrived |-> s.arrived + n, ends |-> x,
           opened |-> s.opened, eof |-> s.eof]
  BY <1>1 DEF IsStream
<1>3. /\ t.units = s.units /\ t.eof = s.eof /\ t.arrived = s.arrived + n /\ t.ends = x
      /\ t.opened = s.opened
  BY <1>2
<1>4. s.units \in Seq(Unit) /\ s.arrived + n \in 0 .. Len(s.units) /\ s.eof \in BOOLEAN
  BY LenProperties DEF IsStream
<1>5. IsStream(t)
  BY <1>2, <1>3, <1>4 DEF IsStream
<1> QED
  BY <1>3, <1>5 DEF Framed, t

\* A closed connection cuts the stream, perhaps within a frame.
LEMMA CloseKeeps ==
    ASSUME NEW s, IsStream(s), Framed(s)
    PROVE  IsStream(Closed(s)) /\ Framed(Closed(s))
<1> DEFINE t == Closed(s)
           u == s.units
           v == SubSeq(u, 1, s.arrived)
<1>1. u \in Seq(Unit) /\ Len(u) \in Nat /\ s.arrived \in 0 .. Len(u)
  BY LenProperties DEF IsStream
<1>2. v \in Seq(Unit) /\ Len(v) = s.arrived /\ \A i \in 1 .. s.arrived : v[i] = u[i]
  BY <1>1, PrefixFacts
<1>3. t = [s EXCEPT !.units = v, !.eof = TRUE]
  BY DEF Closed
<1> HIDE DEF v, t
<1>4. t = [units |-> v, arrived |-> s.arrived, ends |-> s.ends,
           opened |-> s.opened, eof |-> TRUE]
  BY <1>3 DEF IsStream
<1>5. /\ t.units = v /\ t.eof = TRUE /\ t.arrived = s.arrived /\ t.ends = s.ends
      /\ t.opened = s.opened
  BY <1>4
<1>6. IsStream(t)
  BY <1>1, <1>2, <1>4, <1>5 DEF IsStream
<1>7. \A i \in 1 .. Len(v) : i \in 1 .. Len(u) /\ v[i] = u[i]
  BY <1>1, <1>2
<1>8. v # <<>> => v[1].part = 0
  <2>1. v # <<>> => 1 \in 1 .. Len(v)
    BY <1>2, EmptySeq
  <2>2. v # <<>> => u # <<>>
    BY <1>1, <1>7, <2>1, EmptySeq
  <2> QED
    BY <1>7, <2>1, <2>2 DEF Framed
<1>9. \A h, n \in 1 .. Len(v) :
         v[h].part = 0 /\ n = h + v[h].frame.len + 1 => v[n].part = 0
  <2> TAKE h, n \in 1 .. Len(v)
  <2>1. h \in 1 .. Len(u) /\ v[h] = u[h] /\ n \in 1 .. Len(u) /\ v[n] = u[n]
    BY <1>7
  <2> QED
    BY <2>1 DEF Framed
<1>10. Framed(t)
  BY <1>5, <1>8, <1>9 DEF Framed
<1> QED
  BY <1>6, <1>10 DEF t

LEMMA NoStreamFacts ==
    /\ IsStream(NoStream) /\ Framed(NoStream) /\ ~NoStream.eof
    /\ IsStream(Closed(NoStream)) /\ Framed(Closed(NoStream))
<1>1. /\ NoStream.units = <<>> /\ NoStream.arrived = 0 /\ NoStream.ends = {}
      /\ NoStream.opened = 0 /\ NoStream.eof = FALSE
  BY DEF NoStream
<1>2. <<>> \in Seq(Unit) /\ Len(<<>>) = 0
  BY EmptySeq
<1>3. IsStream(NoStream)
  BY <1>1, <1>2 DEF NoStream, IsStream
<1>4. Framed(NoStream)
  BY <1>1, <1>2 DEF Framed
<1> QED
  BY <1>1, <1>3, <1>4, CloseKeeps

-----------------------------------------------------------------------------
(* Whose keys and whose connections: the inductive invariant *)

\* On the dongle a segment is of the connection of the peer it goes to.
ClientsOf(p) == IF case.node = "dongle" THEN {p, Nobody} ELSE Peers \cup {Nobody}
PacketFor(p) == PacketOf(p, ClientsOf(p))

DownOk(d) == d = [p \in Peers |-> d[p]] /\ \A p \in Peers : d[p] \in Seq(PacketFor(p))

IsEntry(q, e) ==
    /\ e = [key |-> e.key, tcp |-> e.tcp, last |-> e.last]
    /\ e.key \in KeysOf(q) /\ e.tcp \in {q, Nobody}

IsTable(t) == \A q \in DOMAIN t : q \in Peers /\ IsEntry(q, t[q])

Tun == UNION {[key : KeysOf(p), peer : {p}] : p \in Peers}

StreamInv == IsStream(stream) /\ Framed(stream)
NodeInv == IsTable(peers) /\ tuns \in Seq(Tun) /\ tcp \in Peers \cup {Nobody}
PeerInv == hs \in [Peers -> 0 .. KeyMax] /\ sess \in [Peers -> 0 .. KeyMax]

RelayInv == case \in Case /\ StreamInv /\ NodeInv /\ PeerInv /\ DownOk(down)

LEMMA PacketFacts ==
    ASSUME NEW p \in Peers, NEW k \in KeysOf(p), NEW c \in ClientsOf(p)
    PROVE  /\ Response(k) \in PacketFor(p)
           /\ Segment(k, c) \in PacketFor(p)
           /\ Initiation(k) \in PacketOf(p, {Nobody})
           /\ \A b \in {"req", "ack", "ping", "none", "pong", "rst"} :
                 Data(k, b) \in PacketOf(p, {Nobody}) /\ Data(k, b) \in PacketFor(p)
           /\ p \in ClientsOf(p) /\ Nobody \in ClientsOf(p)
<1>1. p \in ClientsOf(p) /\ Nobody \in ClientsOf(p)
  BY DEF ClientsOf
<1>2. Response(k) \in PacketFor(p) /\ Initiation(k) \in PacketOf(p, {Nobody})
  BY DEF Response, Initiation, PacketFor, PacketOf
<1>3. \A b \in {"req", "ack", "ping", "none", "pong", "rst"} :
         Data(k, b) \in PacketOf(p, {Nobody}) /\ Data(k, b) \in PacketFor(p)
  BY <1>1 DEF Data, PacketFor, PacketOf
<1>4. Segment(k, c) = [msg |-> "data", key |-> k, body |-> "seg", client |-> c]
  BY DEF Segment, Data
<1>5. Segment(k, c) \in PacketFor(p)
  BY <1>4 DEF PacketFor, PacketOf
<1> QED
  BY <1>1, <1>2, <1>3, <1>5

LEMMA DiscoFacts ==
    ASSUME NEW p, NEW w \in {"ping", "pong", "cmm"}
    PROVE  Disco(w) \in PacketFor(p) /\ Disco(w) \in PacketOf(p, {Nobody})
  BY DEF Disco, PacketFor, PacketOf

LEMMA FrameFacts ==
    /\ Control("101", 0) \in Frame
    /\ \A t \in {"key", "503", "keepalive", "huge"}, n \in Nat : Control(t, n) \in Frame
    /\ \A p \in Peers : \A m \in PacketOf(p, {Nobody}) : Recv(p, m) \in Frame
<1>1. Control("101", 0) \in Frame
  BY DEF Control, Frame
<1>2. \A t \in {"key", "503", "keepalive", "huge"}, n \in Nat : Control(t, n) \in Frame
  BY DEF Control, Frame
<1>3. ASSUME NEW p \in Peers, NEW m \in PacketOf(p, {Nobody})
      PROVE  Recv(p, m) \in Frame
  <2>1. Recv(p, m) \in [type : {"recv"}, len : {1}, src : {p}, pkt : PacketOf(p, {Nobody})]
    BY DEF Recv
  <2> QED
    BY <2>1 DEF Frame
<1> QED
  BY <1>1, <1>2, <1>3

\* The frame at the head of the stream.
LEMMA FirstFacts ==
    ASSUME StreamInv, stream.arrived > 0
    PROVE  /\ First(stream) \in Frame
           /\ First(stream).type = "recv" =>
                 /\ First(stream).src \in Peers
                 /\ First(stream).pkt \in PacketOf(First(stream).src, {Nobody})
           /\ First(stream).type = "101" => First(stream).len = 0
<1>1. 1 \in 1 .. Len(stream.units) /\ stream.units \in Seq(Unit)
  BY LenProperties DEF StreamInv, IsStream
<1>2. stream.units[1] \in Unit
  BY <1>1, ElementOfSeq
<1>3. First(stream) \in Frame
  BY <1>2 DEF First, Unit
<1> QED
  BY <1>3 DEF Frame

LEMMA SentKeeps ==
    ASSUME NEW d, DownOk(d), NEW p \in Peers, NEW pkts \in Seq(PacketFor(p))
    PROVE  DownOk(Sent(d, p, pkts))
<1>1. d[p] \o pkts \in Seq(PacketFor(p))
  BY ConcatFacts DEF DownOk
<1>2. DownOk([d EXCEPT ![p] = d[p] \o pkts])
  BY <1>1 DEF DownOk
<1> QED
  BY <1>2 DEF Sent

LEMMA RankedKeeps ==
    ASSUME NEW t, IsTable(t)
    PROVE  IsTable(Ranked(t))
<1> DEFINE n(q) == Cardinality({t[r].last : r \in {x \in DOMAIN t : t[x].last < t[q].last}})
<1>1. Ranked(t) = [q \in DOMAIN t |-> [t[q] EXCEPT !.last = n(q)]]
  BY DEF Ranked
<1>2. ASSUME NEW q \in DOMAIN t, NEW m
      PROVE  IsEntry(q, [t[q] EXCEPT !.last = m])
  <2>1. IsEntry(q, t[q])
    BY DEF IsTable
  <2>2. [t[q] EXCEPT !.last = m] = [key |-> t[q].key, tcp |-> t[q].tcp, last |-> m]
    BY <2>1 DEF IsEntry
  <2> QED
    BY <2>1, <2>2 DEF IsEntry
<1> HIDE DEF n
<1> QED
  BY <1>1, <1>2 DEF IsTable

LEMMA InsertKeeps ==
    ASSUME NEW t, IsTable(t), NEW p \in Peers, NEW r \in RoomFor(t, p),
           NEW e, IsEntry(p, e)
    PROVE  IsTable(Insert(r, p, e))
<1>1. IsTable(r)
  BY DEF RoomFor, IsTable
<1> QED
  BY <1>1 DEF Insert, IsTable

\* What is in the table of the dongle is replaced by an entry of the same peer.
LEMMA UpdateKeeps ==
    ASSUME NEW t, IsTable(t), NEW p \in DOMAIN t, NEW e, IsEntry(p, e)
    PROVE  IsTable([t EXCEPT ![p] = e])
  BY DEF IsTable

-----------------------------------------------------------------------------
(* Every action keeps it *)

\* What every action does to the circumstances.
SameNode == case' \in Case /\ case'.node = case.node /\ case'.known = case.known

LEMMA CaseFacts ==
    ASSUME NEW c \in Case, NEW n \in Nat, NEW K \in SUBSET Peers
    PROVE  \A d \in {[c EXCEPT !.losses = n], [c EXCEPT !.closes = n],
                     [c EXCEPT !.noise = n], [c EXCEPT !.giveUps = n],
                     [c EXCEPT !.knockers = K]} :
              d \in Case /\ d.node = c.node /\ d.known = c.known
  BY DEF Case

LEMMA DownStep ==
    ASSUME SameNode, DownOk(down')
    PROVE  DownOk(down)'
  BY DEF SameNode, DownOk, PacketFor, ClientsOf

LEMMA ConnectKeeps == RelayInv /\ Connect => RelayInv' /\ SameNode
<1> SUFFICES ASSUME RelayInv, Connect
             PROVE  RelayInv' /\ SameNode
  OBVIOUS
<1>1. SameNode
  <2>1. CASE UNCHANGED case
    BY <2>1 DEF SameNode, RelayInv
  <2>2. CASE case.closes > 0 /\ case' = [case EXCEPT !.closes = @ - 1]
    <3>1. case \in Case /\ case.closes - 1 \in Nat
      BY <2>2 DEF RelayInv, Case
    <3> QED
      BY <2>2, <3>1, CaseFacts DEF SameNode
  <2> QED
    BY <2>1, <2>2 DEF Connect
<1>2. StreamInv'
  <2>1. Control("key", 1) \in Frame /\ Control("503", 0) \in Frame /\ Control("101", 0) \in Frame
    BY FrameFacts
  <2>2. \A f \in Frame : LET t == Write(NoStream, f) IN IsStream(t) /\ Framed(t) /\ ~t.eof
    BY NoStreamFacts, WriteKeeps
  <2>3. LET t == Write(Write(NoStream, Control("101", 0)), Control("key", 1))
        IN  IsStream(t) /\ Framed(t)
    BY <2>1, <2>2, WriteKeeps
  <2>4. stream' \in {Write(NoStream, Control("key", 1)), Write(NoStream, Control("503", 0)),
                     Write(Write(NoStream, Control("101", 0)), Control("key", 1))}
    BY DEF Connect
  <2> QED
    BY <2>1, <2>2, <2>3, <2>4 DEF StreamInv
<1>3. NodeInv' /\ PeerInv' /\ DownOk(down')
  BY DEF Connect, RelayInv, NodeInv, PeerInv, nodeVars, peerVars
<1> QED
  BY <1>1, <1>2, <1>3, DownStep DEF RelayInv, SameNode

\* Starting over leaves an empty stream, and an empty table or the tunnels.
LEMMA StartOverKeeps == RelayInv /\ StartOver => StreamInv' /\ NodeInv'
<1> SUFFICES ASSUME RelayInv, StartOver
             PROVE  StreamInv' /\ NodeInv'
  OBVIOUS
<1>1. stream' = NoStream \/ stream' = Closed(NoStream)
  BY DEF StartOver
<1>2. StreamInv'
  BY <1>1, NoStreamFacts DEF StreamInv
<1>3. IsTable(<<>>)
  BY DEF IsTable
<1> QED
  BY <1>2, <1>3 DEF StartOver, RelayInv, NodeInv

LEMMA OpenKeeps ==
    RelayInv /\ (HttpUpgrade \/ ReadServerKey \/ ReadError) => RelayInv' /\ SameNode
<1> SUFFICES ASSUME RelayInv, HttpUpgrade \/ ReadServerKey \/ ReadError
             PROVE  RelayInv' /\ SameNode
  OBVIOUS
<1>1. /\ SameNode /\ UNCHANGED <<peerVars, down>>
  BY DEF HttpUpgrade, ReadServerKey, ReadError, SameNode, RelayInv
<1>2. StreamInv' /\ NodeInv'
  <2>1. CASE StartOver
    BY <2>1, StartOverKeeps
  <2>2. CASE HttpUpgrade /\ First(stream).type = "101"
    <3>1. First(stream).len = 0 /\ stream.arrived > 0
      BY <2>2, FirstFacts DEF HttpUpgrade, RelayInv
    <3>2. stream' = Take(stream, First(stream).len + 1)
      BY <2>2, <3>1 DEF HttpUpgrade, UpgradeRead
    <3>3. IsStream(stream') /\ Framed(stream')
      BY <3>1, <3>2, TakeKeeps DEF RelayInv, StreamInv
    <3> QED
      BY <2>2, <3>3 DEF HttpUpgrade, StreamInv, RelayInv, NodeInv, nodeVars
  <2>3. CASE ReadServerKey /\ First(stream).type = "key"
    <3>1. stream.arrived > First(stream).len /\ stream.arrived > 0
      BY <2>3 DEF ReadServerKey, Ready
    <3>2. stream' = Take(stream, First(stream).len + 1)
      BY <2>3 DEF ReadServerKey, TakeFrame
    <3>3. IsStream(stream') /\ Framed(stream')
      BY <3>1, <3>2, TakeKeeps DEF RelayInv, StreamInv
    <3> QED
      BY <2>3, <3>3 DEF ReadServerKey, StreamInv, RelayInv, NodeInv, nodeVars
  <2> QED
    BY <2>1, <2>2, <2>3 DEF HttpUpgrade, ReadServerKey, ReadError
<1>3. PeerInv' /\ DownOk(down')
  BY <1>1 DEF RelayInv, PeerInv, peerVars
<1> QED
  BY <1>1, <1>2, <1>3, DownStep DEF RelayInv, SameNode

LEMMA OnePacket ==
    ASSUME NEW p, NEW m \in PacketFor(p)
    PROVE  <<m>> \in Seq(PacketFor(p)) /\ <<>> \in Seq(PacketFor(p))
  BY EmptySeq

\* What comes in from a peer: every packet but a disco message has a key of its.
LEMMA PacketKey ==
    ASSUME NEW p \in Peers, NEW C, NEW m \in PacketOf(p, C)
    PROVE  /\ m.msg \in {"init", "resp", "data", "disco"}
           /\ m.msg # "disco" => m.key \in KeysOf(p)
           /\ m.msg = "data" => m.client \in C
  BY DEF PacketOf

\* One packet of p on the dongle.
LEMMA ServePacketKeeps ==
    ASSUME RelayInv, case.node = "dongle", NEW p \in Peers, NEW pkt \in PacketOf(p, {Nobody}),
           NEW sameMs \in BOOLEAN, ServePacket(p, pkt, sameMs)
    PROVE  IsTable(peers') /\ DownOk(down')
<1> DEFINE greeting == CallMeMaybe(p)
           now == Now(peers, sameMs)
<1>1. greeting \in Seq(PacketFor(p))
  BY DiscoFacts, OnePacket, EmptySeq DEF CallMeMaybe
<1>2. IsTable(peers) /\ DownOk(down)
  BY DEF RelayInv, NodeInv
<1>3. \A pkts \in Seq(PacketFor(p)) : DownOk(Sent(down, p, greeting \o pkts))
  BY <1>1, <1>2, ConcatFacts, SentKeeps
<1>4. ClientsOf(p) = {p, Nobody}
  BY DEF ClientsOf
<1>5. CASE pkt.msg = "disco"
  <2>1. Disco("pong") \in PacketFor(p)
    BY DiscoFacts
  <2>2. /\ UNCHANGED peers
        /\ down' = Sent(down, p, greeting \o IF pkt.what = "ping" THEN <<Disco("pong")>> ELSE <<>>)
    BY <1>5 DEF ServePacket
  <2> QED
    BY <1>2, <1>3, <2>1, <2>2, OnePacket
<1>6. CASE pkt.msg = "init"
  <2>1. pkt.key \in KeysOf(p)
    BY <1>6, PacketKey
  <2>2. Response(pkt.key) \in PacketFor(p)
    BY <2>1, <1>4, PacketFacts
  <2>3. down' = Sent(down, p, greeting \o <<Response(pkt.key)>>)
    BY <1>6 DEF ServePacket
  <2>4. DownOk(down')
    BY <1>3, <2>2, <2>3, OnePacket
  <2> DEFINE e == [key |-> pkt.key, tcp |-> Nobody, last |-> now]
  <2>5. PICK t \in RoomFor(peers, p) : peers' = Ranked(Insert(t, p, e))
    BY <1>6 DEF ServePacket
  <2>6. IsEntry(p, e)
    BY <2>1 DEF IsEntry
  <2> HIDE DEF e
  <2>7. IsTable(Insert(t, p, e))
    BY <1>2, <2>6, InsertKeeps
  <2> QED
    BY <2>4, <2>5, <2>7, RankedKeeps
<1>7. CASE pkt.msg = "data" /\ p \notin DOMAIN peers
  <2>1. UNCHANGED peers /\ down' = Sent(down, p, greeting)
    BY <1>7 DEF ServePacket
  <2> QED
    BY <1>1, <1>2, <2>1, SentKeeps
<1>8. CASE pkt.msg = "data" /\ p \in DOMAIN peers
  <2> DEFINE entry == [peers[p] EXCEPT !.last = now]
             inner == Opens(entry, pkt) /\ Passes(p, pkt)
             after == IF inner THEN [entry EXCEPT !.tcp = TcpAfter(@, p, pkt.body)] ELSE entry
             replies == IF inner THEN InnerReplies(p, entry, pkt.body) ELSE <<>>
  <2>1. peers' = Ranked([peers EXCEPT ![p] = after]) /\ down' = Sent(down, p, greeting \o replies)
    BY <1>8 DEF ServePacket
  <2>2. IsEntry(p, peers[p])
    BY <1>2, <1>8 DEF IsTable
  <2>3. entry = [key |-> peers[p].key, tcp |-> peers[p].tcp, last |-> now]
    BY <2>2 DEF IsEntry
  <2> HIDE DEF entry, now
  <2>4. IsEntry(p, entry) /\ entry.key \in KeysOf(p) /\ entry.tcp \in {p, Nobody}
    BY <2>2, <2>3 DEF IsEntry
  <2>5. TcpAfter(entry.tcp, p, pkt.body) \in {p, Nobody}
    BY <2>4 DEF TcpAfter
  <2>6. IsEntry(p, after)
    <3>1. [entry EXCEPT !.tcp = TcpAfter(@, p, pkt.body)]
             = [key |-> entry.key, tcp |-> TcpAfter(entry.tcp, p, pkt.body), last |-> entry.last]
      BY <2>4 DEF IsEntry
    <3>2. IsEntry(p, [entry EXCEPT !.tcp = TcpAfter(@, p, pkt.body)])
      BY <2>4, <2>5, <3>1 DEF IsEntry
    <3> QED
      BY <2>4, <3>2
  <2>7. replies \in Seq(PacketFor(p))
    <3>1. Segment(entry.key, p) \in PacketFor(p) /\ Data(entry.key, "pong") \in PacketFor(p)
      BY <1>4, <2>4, PacketFacts
    <3> QED
      BY <3>1, OnePacket DEF InnerReplies, SegmentsFor
  <2> HIDE DEF after, replies
  <2>8. IsTable([peers EXCEPT ![p] = after])
    BY <1>2, <1>8, <2>6, UpdateKeeps
  <2> QED
    BY <1>3, <2>1, <2>7, <2>8, RankedKeeps
<1> QED
  BY <1>5, <1>6, <1>7, <1>8 DEF ServePacket

LEMMA ServeKeeps == RelayInv /\ Serve => RelayInv' /\ SameNode
<1> SUFFICES ASSUME RelayInv, Serve
             PROVE  RelayInv' /\ SameNode
  OBVIOUS
<1>1. SameNode /\ UNCHANGED <<tuns, tcp, hs, sess>>
  BY DEF Serve, SameNode, RelayInv, peerVars
<1>2. stream.arrived > First(stream).len /\ stream.arrived > 0
  BY DEF Serve, Ready
<1>3. StreamInv'
  BY <1>2, TakeKeeps DEF Serve, TakeFrame, RelayInv, StreamInv
<1>4. IsTable(peers') /\ DownOk(down')
  <2>1. CASE First(stream).type = "recv"
    <3>1. First(stream).src \in Peers /\ First(stream).pkt \in PacketOf(First(stream).src, {Nobody})
      BY <1>2, <2>1, FirstFacts DEF RelayInv
    <3>2. PICK sameMs \in BOOLEAN : ServePacket(First(stream).src, First(stream).pkt, sameMs)
      BY <2>1 DEF Serve
    <3> QED
      BY <3>1, <3>2, ServePacketKeeps DEF Serve
  <2>2. CASE First(stream).type # "recv"
    BY <2>2 DEF Serve, RelayInv, NodeInv
  <2> QED
    BY <2>1, <2>2
<1>5. NodeInv' /\ PeerInv'
  BY <1>1, <1>4 DEF RelayInv, NodeInv, PeerInv
<1> QED
  BY <1>1, <1>3, <1>4, <1>5, DownStep DEF RelayInv, SameNode

LEMMA IdleKeeps ==
    ASSUME RelayInv, NEW ps \in SUBSET Peers, Idle(ps)
    PROVE  RelayInv' /\ SameNode
<1>1. SameNode /\ StreamInv' /\ NodeInv' /\ PeerInv'
  BY DEF Idle, SameNode, RelayInv, StreamInv, NodeInv, PeerInv, nodeVars, peerVars
<1>2. DownOk(down) /\ IsTable(peers) /\ down' = TickServers(ps) /\ case.node = "dongle"
      /\ ps \subseteq DOMAIN peers
  BY DEF Idle, RelayInv, NodeInv
<1>3. ASSUME NEW q \in Peers
      PROVE  down'[q] \in Seq(PacketFor(q))
  <2>1. CASE q \in ps
    <3> DEFINE m == Segment(peers[q].key, peers[q].tcp)
    <3>1. peers[q].key \in KeysOf(q) /\ peers[q].tcp \in ClientsOf(q)
      BY <1>2, <2>1 DEF IsTable, IsEntry, ClientsOf
    <3>2. m \in PacketFor(q)
      BY <3>1, PacketFacts
    <3> HIDE DEF m
    <3>3. DownOk(Sent(down, q, <<m>>))
      BY <1>2, <3>2, OnePacket, SentKeeps
    <3>4. down'[q] = Sent(down, q, <<m>>)[q]
      BY <1>2, <2>1 DEF TickServers, m
    <3> QED
      BY <3>3, <3>4 DEF DownOk
  <2>2. CASE q \notin ps
    BY <1>2, <2>2 DEF TickServers, DownOk
  <2> QED
    BY <2>1, <2>2
<1>4. DownOk(down')
  BY <1>2, <1>3 DEF DownOk, TickServers
<1> QED
  BY <1>1, <1>4, DownStep DEF RelayInv, SameNode

\* The tunnels of the browser node.
LEMMA TunFacts ==
    /\ \A p \in Peers : \A k \in KeysOf(p) : [key |-> k, peer |-> p] \in Tun
    /\ \A t \in Tun : t.peer \in Peers /\ t.key \in KeysOf(t.peer)
<1>1. ASSUME NEW p \in Peers, NEW k \in KeysOf(p)
      PROVE  [key |-> k, peer |-> p] \in Tun
  <2>1. [key |-> k, peer |-> p] \in [key : KeysOf(p), peer : {p}]
    OBVIOUS
  <2> QED
    BY <2>1 DEF Tun
<1>2. ASSUME NEW t \in Tun
      PROVE  t.peer \in Peers /\ t.key \in KeysOf(t.peer)
  <2>1. PICK p \in Peers : t \in [key : KeysOf(p), peer : {p}]
    BY DEF Tun
  <2> QED
    BY <2>1
<1> QED
  BY <1>1, <1>2

LEMMA PushedKeeps ==
    ASSUME NEW ts \in Seq(Tun), NEW t \in Tun
    PROVE  Pushed(ts, t) \in Seq(Tun)
<1>1. Append(ts, t) \in Seq(Tun) /\ Append(ts, t) # <<>>
  BY AppendFacts
<1>2. Tail(Append(ts, t)) \in Seq(Tun)
  BY <1>1, TailFacts
<1> QED
  BY <1>1, <1>2 DEF Pushed

LEMMA PositionFacts ==
    ASSUME tuns \in Seq(Tun), NEW k, Position(k) # {}
    PROVE  LET t == tuns[Min(Position(k))] IN t.peer \in Peers /\ t.key \in KeysOf(t.peer)
<1>1. Position(k) \subseteq 1 .. Len(tuns) /\ Position(k) \subseteq Nat
  BY LenProperties DEF Position
<1>2. Min(Position(k)) \in Position(k)
  BY <1>1, LeastElement DEF Min
<1>3. tuns[Min(Position(k))] \in Tun
  BY <1>1, <1>2, ElementOfSeq
<1> QED
  BY <1>3, TunFacts

\* A segment of whatever client goes through a tunnel to the peer it belongs to.
LEMMA TunnelSends ==
    ASSUME case.node = "browser", DownOk(down), NEW q \in Peers, NEW k \in KeysOf(q),
           NEW c \in Peers \cup {Nobody}
    PROVE  DownOk(Sent(down, q, <<Segment(k, c)>>)) /\ DownOk(Sent(down, q, <<>>))
<1>1. ClientsOf(q) = Peers \cup {Nobody}
  BY DEF ClientsOf
<1>2. Segment(k, c) \in PacketFor(q)
  BY <1>1, PacketFacts
<1>3. <<Segment(k, c)>> \in Seq(PacketFor(q)) /\ <<>> \in Seq(PacketFor(q))
  BY <1>2, OnePacket
<1> QED
  BY <1>3, SentKeeps

LEMMA BrowserPacketKeeps ==
    ASSUME RelayInv, case.node = "browser", NEW p \in Peers,
           NEW pkt \in PacketOf(p, {Nobody}), BrowserPacket(p, pkt)
    PROVE  tuns' \in Seq(Tun) /\ tcp' \in Peers \cup {Nobody} /\ DownOk(down')
<1>1. tuns \in Seq(Tun) /\ tcp \in Peers \cup {Nobody} /\ DownOk(down)
  BY DEF RelayInv, NodeInv
<1>2. CASE pkt.msg = "init"
  <2>1. pkt.key \in KeysOf(p)
    BY <1>2, PacketKey
  <2>2. /\ tuns' = Pushed(tuns, [key |-> pkt.key, peer |-> p]) /\ UNCHANGED tcp
        /\ down' = Sent(down, p, <<Response(pkt.key)>>)
    BY <1>2 DEF BrowserPacket
  <2>3. Response(pkt.key) \in PacketFor(p)
    BY <2>1, PacketFacts DEF ClientsOf
  <2>4. [key |-> pkt.key, peer |-> p] \in Tun
    BY <2>1, TunFacts
  <2>5. tuns' \in Seq(Tun)
    BY <1>1, <2>2, <2>4, PushedKeeps
  <2>6. <<Response(pkt.key)>> \in Seq(PacketFor(p))
    BY <2>3, OnePacket
  <2> QED
    BY <1>1, <2>2, <2>5, <2>6, SentKeeps
<1>3. CASE pkt.msg = "data" /\ Position(pkt.key) # {} /\ pkt.body # "none"
  <2> DEFINE t == tuns[Min(Position(pkt.key))]
  <2>1. t.peer \in Peers /\ t.key \in KeysOf(t.peer)
    BY <1>1, <1>3, PositionFacts
  <2>2. /\ UNCHANGED tuns /\ tcp' = TcpAfter(tcp, p, pkt.body)
        /\ down' = Sent(down, t.peer, SegmentsFor(t.key, p, pkt.body))
    BY <1>3 DEF BrowserPacket
  <2> HIDE DEF t
  <2>3. tcp' \in Peers \cup {Nobody}
    BY <1>1, <2>2 DEF TcpAfter
  <2>4. DownOk(Sent(down, t.peer, <<Segment(t.key, p)>>)) /\ DownOk(Sent(down, t.peer, <<>>))
    BY <1>1, <2>1, TunnelSends
  <2> QED
    BY <1>1, <2>2, <2>3, <2>4 DEF SegmentsFor
<1>4. CASE UNCHANGED <<tuns, tcp, active, down>>
  BY <1>1, <1>4
<1> QED
  BY <1>2, <1>3, <1>4 DEF BrowserPacket

LEMMA BrowserServeKeeps == RelayInv /\ BrowserServe => RelayInv' /\ SameNode
<1> SUFFICES ASSUME RelayInv, BrowserServe
             PROVE  RelayInv' /\ SameNode
  OBVIOUS
<1>1. SameNode /\ UNCHANGED <<peers, hs, sess>>
  BY DEF BrowserServe, SameNode, RelayInv, peerVars
<1>2. stream.arrived > First(stream).len /\ stream.arrived > 0
  BY DEF BrowserServe, Ready
<1>3. StreamInv'
  BY <1>2, TakeKeeps DEF BrowserServe, TakeFrame, RelayInv, StreamInv
<1>4. tuns' \in Seq(Tun) /\ tcp' \in Peers \cup {Nobody} /\ DownOk(down')
  <2>1. CASE First(stream).type = "recv"
    <3>1. First(stream).src \in Peers /\ First(stream).pkt \in PacketOf(First(stream).src, {Nobody})
      BY <1>2, <2>1, FirstFacts DEF RelayInv
    <3>2. BrowserPacket(First(stream).src, First(stream).pkt) /\ case.node = "browser"
      BY <2>1 DEF BrowserServe
    <3> QED
      BY <3>1, <3>2, BrowserPacketKeeps
  <2>2. CASE First(stream).type # "recv"
    BY <2>2 DEF BrowserServe, RelayInv, NodeInv
  <2> QED
    BY <2>1, <2>2
<1>5. NodeInv' /\ PeerInv'
  BY <1>1, <1>4 DEF RelayInv, NodeInv, PeerInv
<1> QED
  BY <1>1, <1>3, <1>4, <1>5, DownStep DEF RelayInv, SameNode

LEMMA BrowserTickKeeps == RelayInv /\ BrowserTick => RelayInv' /\ SameNode
<1> SUFFICES ASSUME RelayInv, BrowserTick
             PROVE  RelayInv' /\ SameNode
  OBVIOUS
<1>1. SameNode /\ StreamInv' /\ NodeInv' /\ PeerInv'
  BY DEF BrowserTick, SameNode, RelayInv, StreamInv, NodeInv, PeerInv, nodeVars, peerVars
<1>2. TickTunnel \in Tun
  BY LenProperties, ElementOfSeq DEF BrowserTick, TickTunnel, RelayInv, NodeInv
<1>3. TickTunnel.peer \in Peers /\ TickTunnel.key \in KeysOf(TickTunnel.peer)
  BY <1>2, TunFacts
<1>4. DownOk(down')
  BY <1>3, TunnelSends DEF BrowserTick, RelayInv, NodeInv
<1> QED
  BY <1>1, <1>4, DownStep DEF RelayInv, SameNode

LEMMA GiveUpKeeps == RelayInv /\ GiveUp => RelayInv' /\ SameNode
<1> SUFFICES ASSUME RelayInv, GiveUp
             PROVE  RelayInv' /\ SameNode
  OBVIOUS
<1>1. SameNode
  <2>1. case \in Case /\ case.giveUps - 1 \in Nat /\ case' = [case EXCEPT !.giveUps = @ - 1]
    BY DEF GiveUp, RelayInv, Case
  <2> QED
    BY <2>1, CaseFacts DEF SameNode
<1>2. StreamInv' /\ PeerInv' /\ DownOk(down) /\ NodeInv /\ UNCHANGED tuns
  BY DEF GiveUp, RelayInv, StreamInv, PeerInv, peerVars
<1>3. NodeInv' /\ DownOk(down')
  <2>1. CASE case.node = "dongle"
    <3>1. PICK q \in DOMAIN peers :
                  /\ peers' = [peers EXCEPT ![q].tcp = Nobody] /\ UNCHANGED tcp
                  /\ down' = Sent(down, q, <<Data(peers[q].key, "rst")>>)
      BY <2>1 DEF GiveUp
    <3> DEFINE e == [peers[q] EXCEPT !.tcp = Nobody]
    <3>2. q \in Peers /\ IsEntry(q, peers[q])
      BY <1>2 DEF NodeInv, IsTable
    <3>3. IsEntry(q, e) /\ peers' = [peers EXCEPT ![q] = e]
      <4>1. e = [key |-> peers[q].key, tcp |-> Nobody, last |-> peers[q].last]
        BY <3>2 DEF IsEntry
      <4> QED
        BY <3>1, <3>2, <4>1 DEF IsEntry
    <3> HIDE DEF e
    <3>4. IsTable(peers')
      BY <1>2, <3>3, UpdateKeeps DEF NodeInv
    <3>5. Data(peers[q].key, "rst") \in PacketFor(q)
      BY <3>2, PacketFacts DEF IsEntry, ClientsOf
    <3>6. DownOk(down')
      BY <1>2, <3>1, <3>2, <3>5, OnePacket, SentKeeps
    <3> QED
      BY <1>2, <3>1, <3>4, <3>6 DEF NodeInv
  <2>2. CASE case.node # "dongle"
    <3>1. /\ active \in DOMAIN tuns /\ tcp' = Nobody /\ UNCHANGED peers
          /\ down' = Sent(down, TickTunnel.peer, <<Data(TickTunnel.key, "rst")>>)
      BY <2>2 DEF GiveUp
    <3>2. TickTunnel \in Tun
      BY <1>2, <3>1, LenProperties, ElementOfSeq DEF TickTunnel, NodeInv
    <3>3. TickTunnel.peer \in Peers /\ TickTunnel.key \in KeysOf(TickTunnel.peer)
      BY <3>2, TunFacts
    <3>4. Data(TickTunnel.key, "rst") \in PacketFor(TickTunnel.peer)
      BY <3>3, PacketFacts DEF ClientsOf
    <3>5. DownOk(down')
      BY <1>2, <3>1, <3>3, <3>4, OnePacket, SentKeeps
    <3> QED
      BY <1>2, <3>1, <3>5 DEF NodeInv
  <2> QED
    BY <2>1, <2>2
<1> QED
  BY <1>1, <1>2, <1>3, DownStep DEF RelayInv, SameNode

\* A peer sends a packet of its own.
LEMMA SendUpKeeps ==
    ASSUME RelayInv, NEW p \in Peers, NEW m \in PacketOf(p, {Nobody}), SendUp(p, m)
    PROVE  StreamInv' /\ SameNode
<1>1. IsStream(stream) /\ Framed(stream) /\ case \in Case
  BY DEF RelayInv, StreamInv
<1>2. CASE stream' = (IF Online THEN Write(stream, Recv(p, m)) ELSE stream) /\ UNCHANGED case
  <2>1. Recv(p, m) \in Frame
    BY FrameFacts
  <2>2. IsStream(stream') /\ Framed(stream')
    BY <1>1, <1>2, <2>1, WriteKeeps DEF Online
  <2> QED
    BY <1>1, <1>2, <2>2 DEF StreamInv, SameNode
<1>3. CASE case.losses > 0 /\ case' = [case EXCEPT !.losses = @ - 1] /\ UNCHANGED stream
  <2>1. case.losses - 1 \in Nat
    BY <1>1, <1>3 DEF Case
  <2>2. SameNode
    BY <1>1, <1>3, <2>1, CaseFacts DEF SameNode
  <2> QED
    BY <1>1, <1>3, <2>2 DEF StreamInv
<1> QED
  BY <1>2, <1>3 DEF SendUp

LEMMA FreshKeyFacts ==
    ASSUME NEW p \in Peers, 1 .. KeyMax \ UsedKeys(p) # {}
    PROVE  FreshKey(p) \in 1 .. KeyMax /\ Initiation(<<p, FreshKey(p)>>) \in PacketOf(p, {Nobody})
<1>1. FreshKey(p) \in 1 .. KeyMax
  BY DEF FreshKey
<1>2. <<p, FreshKey(p)>> \in KeysOf(p)
  BY <1>1 DEF KeysOf
<1> QED
  BY <1>1, <1>2, PacketFacts DEF ClientsOf

LEMMA InitiateKeeps ==
    ASSUME RelayInv, NEW p \in Peers, Handshake(p) \/ Knock(p)
    PROVE  RelayInv' /\ SameNode
<1>1. /\ FreshKey(p) \in 1 .. KeyMax /\ Initiation(<<p, FreshKey(p)>>) \in PacketOf(p, {Nobody})
  BY FreshKeyFacts DEF Handshake, Knock, Initiate
<1>2. /\ UNCHANGED <<nodeVars, sess, down>> /\ hs' = [hs EXCEPT ![p] = FreshKey(p)]
  BY DEF Handshake, Knock, Initiate
<1>3. NodeInv' /\ DownOk(down')
  BY <1>2 DEF RelayInv, NodeInv, nodeVars
<1>4. PeerInv'
  <2>1. KeyMax \in Nat
    BY RelayAssumption
  <2>2. FreshKey(p) \in 0 .. KeyMax
    BY <1>1, <2>1
  <2> QED
    BY <1>2, <2>2 DEF RelayInv, PeerInv
<1>5. StreamInv' /\ SameNode
  <2>1. CASE Handshake(p)
    BY <1>1, <2>1, SendUpKeeps DEF Handshake
  <2>2. CASE Knock(p)
    <3>1. /\ stream' = Write(stream, Recv(p, Initiation(<<p, FreshKey(p)>>)))
          /\ case' = [case EXCEPT !.knockers = @ \ {p}] /\ ~stream.eof
      BY <2>2 DEF Knock, Initiate, Online
    <3>2. Recv(p, Initiation(<<p, FreshKey(p)>>)) \in Frame
      BY <1>1, FrameFacts
    <3>3. StreamInv'
      BY <3>1, <3>2, WriteKeeps DEF RelayInv, StreamInv
    <3>4. case \in Case /\ case.knockers \ {p} \in SUBSET Peers
      BY DEF RelayInv, Case
    <3>5. SameNode
      BY <3>1, <3>4, CaseFacts DEF SameNode
    <3> QED
      BY <3>3, <3>5
  <2> QED
    BY <2>1, <2>2
<1> QED
  BY <1>3, <1>4, <1>5, DownStep DEF RelayInv, SameNode

\* One packet less for p.
LEMMA TakenKeeps ==
    ASSUME DownOk(down), NEW p \in Peers, down[p] # <<>>
    PROVE  /\ Head(down[p]) \in PacketFor(p)
           /\ DownOk([down EXCEPT ![p] = Tail(@)])
<1>1. Head(down[p]) \in PacketFor(p) /\ Tail(down[p]) \in Seq(PacketFor(p))
  BY TailFacts DEF DownOk
<1>2. DownOk([down EXCEPT ![p] = Tail(@)])
  BY <1>1 DEF DownOk
<1> QED
  BY <1>1, <1>2

LEMMA PeerReceiveKeeps ==
    ASSUME RelayInv, NEW p \in Peers, PeerReceive(p)
    PROVE  RelayInv' /\ SameNode
<1> DEFINE m == Head(down[p])
<1>1. m \in PacketFor(p) /\ DownOk(down')
  BY TakenKeeps DEF PeerReceive, RelayInv
<1>2. NodeInv'
  BY DEF PeerReceive, RelayInv, NodeInv, nodeVars
<1> HIDE DEF m
<1>3. ASSUME m.msg \in {"resp", "data"}, \E b \in {"req", "ack"} : SendUp(p, Data(m.key, b))
      PROVE  StreamInv' /\ SameNode
  <2>1. PICK b \in {"req", "ack"} : SendUp(p, Data(m.key, b))
    BY <1>3
  <2>2. m.key \in KeysOf(p)
    BY <1>1, <1>3, PacketKey DEF PacketFor
  <2>3. Data(m.key, b) \in PacketOf(p, {Nobody})
    BY <2>2, PacketFacts DEF ClientsOf
  <2> QED
    BY <2>1, <2>3, SendUpKeeps
<1>4. ASSUME UNCHANGED <<case, stream>>
      PROVE  StreamInv' /\ SameNode
  BY <1>4 DEF RelayInv, StreamInv, SameNode
<1>5. StreamInv' /\ SameNode
  BY <1>3, <1>4 DEF PeerReceive, m
<1>6. PeerInv'
  <2>1. \/ UNCHANGED <<hs, sess>>
        \/ sess' = [sess EXCEPT ![p] = hs[p]] /\ hs' = [hs EXCEPT ![p] = 0]
    BY DEF PeerReceive, peerVars
  <2>2. 0 \in 0 .. KeyMax
    BY RelayAssumption
  <2> QED
    BY <2>1, <2>2 DEF RelayInv, PeerInv
<1> QED
  BY <1>1, <1>2, <1>5, <1>6, DownStep DEF RelayInv, SameNode

LEMMA NoiseKeeps ==
    ASSUME RelayInv, NEW p \in Peers, Noise(p)
    PROVE  RelayInv' /\ SameNode
<1>1. NodeInv' /\ PeerInv' /\ DownOk(down')
  BY DEF Noise, RelayInv, NodeInv, PeerInv, nodeVars, peerVars
<1>2. SameNode
  <2>1. case \in Case /\ case.noise - 1 \in Nat /\ case' = [case EXCEPT !.noise = @ - 1]
    BY DEF Noise, RelayInv, Case
  <2> QED
    BY <2>1, CaseFacts DEF SameNode
<1>3. PICK f \in OtherFrames(p) : stream' = Write(stream, f)
  BY DEF Noise
<1>4. f \in Frame
  <2>1. CASE f \in {Control("keepalive", 0), Control("huge", MAX_FRAME + 1)}
    <3>1. MAX_FRAME + 1 \in Nat
      BY DerpStreamAssumption
    <3> QED
      BY <2>1, <3>1, FrameFacts
  <2>2. CASE \E w \in {"ping", "cmm"} : f = Recv(p, Disco(w))
    BY <2>2, DiscoFacts, FrameFacts
  <2>3. CASE sess[p] # 0 /\ \E b \in {"ping", "none"} : f = Recv(p, Data(<<p, sess[p]>>, b))
    <3>1. sess[p] \in 1 .. KeyMax
      BY <2>3, RelayAssumption DEF RelayInv, PeerInv
    <3>2. <<p, sess[p]>> \in KeysOf(p)
      BY <3>1 DEF KeysOf
    <3>3. \A b \in {"ping", "none"} : Data(<<p, sess[p]>>, b) \in PacketOf(p, {Nobody})
      BY <3>2, PacketFacts DEF ClientsOf
    <3> QED
      BY <2>3, <3>3, FrameFacts
  <2> QED
    BY <1>3, <2>1, <2>2, <2>3 DEF OtherFrames
<1>5. StreamInv'
  BY <1>3, <1>4, WriteKeeps DEF RelayInv, StreamInv, Noise, Online
<1> QED
  BY <1>1, <1>2, <1>5, DownStep DEF RelayInv, SameNode

LEMMA LoseKeeps ==
    ASSUME RelayInv, NEW p \in Peers, Lose(p)
    PROVE  RelayInv' /\ SameNode
<1>1. StreamInv' /\ NodeInv' /\ PeerInv'
  BY DEF Lose, RelayInv, StreamInv, NodeInv, PeerInv, nodeVars, peerVars
<1>2. SameNode
  <2>1. case \in Case /\ case.losses - 1 \in Nat /\ case' = [case EXCEPT !.losses = @ - 1]
    BY DEF Lose, RelayInv, Case
  <2> QED
    BY <2>1, CaseFacts DEF SameNode
<1>3. DownOk(down')
  BY TakenKeeps DEF Lose, RelayInv
<1> QED
  BY <1>1, <1>2, <1>3, DownStep DEF RelayInv, SameNode

LEMMA RelayKeeps == RelayInv /\ (Deliver \/ Close) => RelayInv' /\ SameNode
<1> SUFFICES ASSUME RelayInv, Deliver \/ Close
             PROVE  RelayInv' /\ SameNode
  OBVIOUS
<1>1. NodeInv' /\ PeerInv' /\ DownOk(down')
  BY DEF Deliver, Close, RelayInv, NodeInv, PeerInv, nodeVars, peerVars
<1>2. CASE Deliver
  <2>1. StreamInv'
    BY <1>2, ArriveKeeps DEF Deliver, RelayInv, StreamInv
  <2>2. SameNode
    BY <1>2 DEF Deliver, SameNode, RelayInv
  <2> QED
    BY <1>1, <2>1, <2>2, DownStep DEF RelayInv, SameNode
<1>3. CASE Close
  <2>1. StreamInv'
    BY <1>3, CloseKeeps DEF Close, RelayInv, StreamInv
  <2>2. SameNode
    <3>1. case \in Case /\ case.closes - 1 \in Nat /\ case' = [case EXCEPT !.closes = @ - 1]
      BY <1>3 DEF Close, RelayInv, Case
    <3> QED
      BY <3>1, CaseFacts DEF SameNode
  <2> QED
    BY <1>1, <2>1, <2>2, DownStep DEF RelayInv, SameNode
<1> QED
  BY <1>2, <1>3

LEMMA RelayInit == Init => RelayInv
<1> SUFFICES ASSUME Init
             PROVE  RelayInv
  OBVIOUS
<1>1. case \in Case /\ PeerInv
  BY RelayAssumption DEF Init, PeerInv
<1>2. StreamInv
  BY NoStreamFacts DEF Init, StreamInv
<1>3. NodeInv
  BY EmptySeq DEF Init, NodeInv, IsTable
<1>4. \A p \in Peers : <<>> \in Seq(PacketFor(p))
  BY EmptySeq
<1>5. DownOk(down)
  BY <1>4 DEF Init, DownOk
<1> QED
  BY <1>1, <1>2, <1>3, <1>5 DEF RelayInv

LEMMA RelayStep == RelayInv /\ [Next]_vars => RelayInv' /\ SameNode
<1> SUFFICES ASSUME RelayInv, [Next]_vars
             PROVE  RelayInv' /\ SameNode
  OBVIOUS
<1>1. CASE UNCHANGED vars
  <2>1. SameNode
    BY <1>1 DEF vars, SameNode, RelayInv
  <2>2. StreamInv' /\ NodeInv' /\ PeerInv' /\ DownOk(down')
    BY <1>1 DEF vars, nodeVars, peerVars, RelayInv, StreamInv, NodeInv, PeerInv
  <2> QED
    BY <2>1, <2>2, DownStep DEF RelayInv, SameNode
<1>2. CASE Reader
  BY <1>2, ConnectKeeps, OpenKeeps, ServeKeeps, BrowserServeKeeps DEF Reader
<1>3. CASE BrowserTick \/ GiveUp \/ Deliver \/ Close
  BY <1>3, BrowserTickKeeps, GiveUpKeeps, RelayKeeps
<1>4. CASE \E ps \in SUBSET Peers : Idle(ps)
  BY <1>4, IdleKeeps
<1>5. CASE \E p \in Peers : Handshake(p) \/ Knock(p) \/ PeerReceive(p) \/ Noise(p) \/ Lose(p)
  BY <1>5, InitiateKeeps, PeerReceiveKeeps, NoiseKeeps, LoseKeeps
<1> QED
  BY <1>1, <1>2, <1>3, <1>4, <1>5 DEF Next

\* RelayInv is an invariant of every behaviour, whatever the peers, the relay and
\* the network do: each packet on its way carries a key of the peer at its other
\* end, and the stream is a row of frames.
THEOREM RelayInvariant == Spec => []RelayInv
<1>1. RelayInv /\ [Next]_vars => RelayInv'
  BY RelayStep
<1> QED
  BY <1>1, RelayInit, PTL DEF Spec

\* Derp::read_frame and DerpConn::read_frame never read a payload as a header,
\* into whatever records the relay cut its frames, and whatever the upgrade took.
THEOREM FramesStayAligned == Spec => []StreamAligned
<1>1. RelayInv => StreamAligned
  BY DEF RelayInv, StreamInv, Framed, StreamAligned, Aligned
<1> QED
  BY <1>1, RelayInvariant, PTL

\* What serve() and derp_inner() send to a peer is under a key of that peer, and a
\* segment of the dongle is of that peer's own TcpServer, for any number of peers,
\* tables of any size and any order of handshakes, evictions and reconnects.
THEOREM PacketsReachTheirPeer == Spec => []RightPeer
<1>1. ASSUME RelayInv
      PROVE  RightPeer
  <2>1. ASSUME NEW p \in Peers, NEW m \in ToSet(down[p])
        PROVE  m \in PacketOf(p, ClientsOf(p))
    <3>1. down[p] \in Seq(PacketFor(p))
      BY <1>1 DEF RelayInv, DownOk
    <3>2. PICK i \in 1 .. Len(down[p]) : m = down[p][i]
      BY <3>1, LenProperties DEF ToSet
    <3> QED
      BY <3>1, <3>2, ElementOfSeq DEF PacketFor
  <2>2. KeyMatchesPeer
    BY <2>1, PacketKey DEF KeyMatchesPeer, KeysOf
  <2>3. SegmentForOwner
    BY <2>1, PacketKey DEF SegmentForOwner, ClientsOf
  <2> QED
    BY <2>2, <2>3 DEF RightPeer
<1> QED
  BY <1>1, RelayInvariant, PTL

-----------------------------------------------------------------------------
(* Peers of the map are probed *)

\* A peer is in `upgraded' because its endpoints were handed over, or because it
\* was not in the map; what was handed over stays.
ProbedInv ==
    /\ targets = [p \in Peers |-> targets[p]] /\ heard \subseteq Peers
    /\ \A p \in heard \cup (upgraded \cap Peers \cap case.known) : targets[p] # {}

LEMMA ProbedStep == RelayInv /\ ProbedInv /\ [Next]_vars => ProbedInv'
<1> SUFFICES ASSUME RelayInv, ProbedInv, [Next]_vars
             PROVE  ProbedInv'
  OBVIOUS
<1>1. case'.known = case.known
  BY RelayStep DEF SameNode
<1>2. CASE Serve /\ First(stream).type = "recv"
  <2> DEFINE p == First(stream).src
             pkt == First(stream).pkt
             fresh == IF pkt = Disco("cmm") THEN {"fresh"} ELSE {}
  <2>1. stream.arrived > 0
    BY <1>2 DEF Serve, Ready
  <2>2. p \in Peers
    BY <1>2, <2>1, FirstFacts DEF RelayInv
  <2>3. PICK sameMs \in BOOLEAN : ServePacket(p, pkt, sameMs)
    BY <1>2 DEF Serve
  <2>4. /\ upgraded' = Upgraded(p) /\ heard' = heard \cup ({p} \cap case.known)
        /\ targets' = [targets EXCEPT ![p] = @ \cup Upgrades(p) \cup fresh]
    BY <2>3 DEF ServePacket
  <2> HIDE DEF p, pkt, fresh
  <2>5. /\ targets' = [q \in Peers |-> targets'[q]]
        /\ \A q \in Peers : targets[q] \subseteq targets'[q]
        /\ Upgrades(p) \subseteq targets'[p]
    BY <2>2, <2>4 DEF ProbedInv
  <2>6. p \in case.known => targets'[p] # {}
    BY <2>2, <2>5 DEF ProbedInv, Upgrades, TriesUpgrade
  <2>7. heard' \subseteq Peers /\ \A q \in heard' : q \in heard \/ (q = p /\ p \in case.known)
    BY <2>2, <2>4 DEF ProbedInv
  <2>8. \A q \in upgraded' : q \in upgraded \/ q = p
    BY <2>4 DEF Upgraded
  <2> QED
    BY <1>1, <2>5, <2>6, <2>7, <2>8 DEF ProbedInv
<1>3. CASE UNCHANGED <<targets, heard>> /\ (upgraded' = upgraded \/ upgraded' = {})
  BY <1>1, <1>3 DEF ProbedInv
<1>4. CASE UNCHANGED vars
  BY <1>3, <1>4 DEF vars, nodeVars
<1>5. CASE Reader
  <2>1. CASE StartOver
    BY <1>3, <2>1 DEF StartOver
  <2>2. CASE Connect \/ BrowserServe \/ (HttpUpgrade /\ UNCHANGED nodeVars)
               \/ (ReadServerKey /\ UNCHANGED nodeVars)
    BY <1>3, <2>2 DEF Connect, BrowserServe, nodeVars
  <2>3. CASE Serve /\ First(stream).type # "recv"
    BY <1>3, <2>3 DEF Serve
  <2> QED
    BY <1>2, <1>5, <2>1, <2>2, <2>3 DEF Reader, HttpUpgrade, ReadServerKey, ReadError
<1>6. CASE BrowserTick \/ GiveUp \/ Deliver \/ Close
  BY <1>3, <1>6 DEF BrowserTick, GiveUp, Deliver, Close, nodeVars
<1>7. CASE \E ps \in SUBSET Peers : Idle(ps)
  BY <1>3, <1>7 DEF Idle, nodeVars
<1>8. CASE \E p \in Peers : Handshake(p) \/ Knock(p) \/ PeerReceive(p) \/ Noise(p) \/ Lose(p)
  BY <1>3, <1>8 DEF Handshake, Knock, PeerReceive, Noise, Lose, nodeVars
<1> QED
  BY <1>4, <1>5, <1>6, <1>7, <1>8 DEF Next

\* try_upgrade hands every peer of the map that serve() hears from to the data
\* plane, although it forgets the peers it has done when there are too many of
\* them and all of them at a reconnect.
THEOREM HeardPeersAreProbed == Spec => []KnownPeersProbed
<1>1. Init => ProbedInv
  BY DEF Init, ProbedInv
<1>2. ProbedInv => KnownPeersProbed
  BY DEF ProbedInv, KnownPeersProbed
<1> QED
  BY <1>1, <1>2, ProbedStep, RelayInvariant, PTL DEF Spec
=============================================================================
