--------------------------- MODULE TcpServerProofs ---------------------------
(***************************************************************************)
(* Proofs about TcpServer in any environment, for any ring size, window,   *)
(* segment size, response lengths and timer values.                        *)
(***************************************************************************)
EXTENDS TcpServer, SequenceTheorems, TLAPS

-----------------------------------------------------------------------------
(* The ring *)

\* Wrapping arithmetic stays on the ring.
LEMMA WrapType ==
    \A a, b \in SeqNums :
       WAdd(a, b) \in SeqNums /\ WSub(a, b) \in SeqNums /\ WSub(a, b) \in Nat
  BY SeqHalfAssumption DEF WAdd, WSub, SeqMod, SeqNums

\* Advancing a sequence number advances its distance from any base, as long
\* as the distance stays on the ring.
LEMMA Advance ==
    ASSUME NEW a \in SeqNums, NEW base \in SeqNums, NEW n \in SeqNums,
           WSub(a, base) + n < SeqMod
    PROVE  WSub(WAdd(a, n), base) = WSub(a, base) + n
  BY SeqHalfAssumption DEF WAdd, WSub, SeqMod, SeqNums

\* The acceptance test of process() for an ACK number: with snd_una and
\* snd_nxt in order on the near half of the ring it admits exactly numbers
\* after snd_una and up to snd_nxt.
LEMMA AckWindow ==
    ASSUME NEW una \in SeqNums, NEW nxt \in SeqNums, NEW iss \in SeqNums,
           NEW ack \in SeqNums,
           WSub(una, iss) <= WSub(nxt, iss), WSub(nxt, iss) < SeqHalf,
           SeqLt(una, ack), ~SeqLt(nxt, ack)
    PROVE  WSub(una, iss) < WSub(ack, iss) /\ WSub(ack, iss) <= WSub(nxt, iss)
  BY SeqHalfAssumption DEF SeqLt, AsSigned, WSub, SeqMod, SeqNums

\* The distance between two sequence numbers, seen from a common base.
LEMMA Distance ==
    ASSUME NEW una \in SeqNums, NEW nxt \in SeqNums, NEW iss \in SeqNums,
           WSub(una, iss) <= WSub(nxt, iss)
    PROVE  WSub(nxt, una) = WSub(nxt, iss) - WSub(una, iss)
  BY SeqHalfAssumption DEF WSub, SeqMod, SeqNums

\* acked_bytes and sent_bytes on the near half of the ring: the distance from
\* the SYN less the SYN itself, cut off at the length of the response.
LEMMA StreamBytesValue ==
    ASSUME NEW c \in Conn, NEW seq \in SeqNums, WSub(seq, c.iss) < SeqHalf
    PROVE  StreamBytes(c, seq) =
             IF WSub(seq, c.iss) = 0 THEN 0
             ELSE MinOf(WSub(seq, c.iss) - 1, c.resp.total)
<1>1. c.iss \in SeqNums /\ c.resp.total \in Nat
  BY DEF Conn
<1>2. WSub(seq, c.iss) \in 0 .. SeqHalf - 1
  BY <1>1, WrapType, SeqHalfAssumption
<1>3. AsSigned(WSub(WSub(seq, c.iss), 1)) = WSub(seq, c.iss) - 1
  <2> DEFINE d == WSub(seq, c.iss)
  <2>1. d \in 0 .. SeqHalf - 1
    BY <1>2
  <2> HIDE DEF d
  <2>2. AsSigned(WSub(d, 1)) = d - 1
    BY <2>1, SeqHalfAssumption DEF AsSigned, WSub, SeqMod
  <2> QED  BY <2>2 DEF d
<1> QED
  BY <1>1, <1>2, <1>3 DEF StreamBytes, Clamp, MinOf

-----------------------------------------------------------------------------
(* The inductive invariant *)

IInv == TypeOK /\ SendInv

LEMMA NoConnType == NoConn \in Conn
  BY SeqHalfAssumption, TcpAssumption
     DEF NoConn, NoResp, Conn, SeqNums, SeqMod

LEMMA InitIInv == Init => IInv
  BY NoConnType, TcpAssumption DEF Init, IInv, TypeOK, SendInv, NoConn, NoResp

\* What the ACK field of a segment does to a connection in order.
LEMMA AckFieldInv ==
    ASSUME NEW c \in Conn, NEW m \in ClientSegment,
           WSub(c.snd_una, c.iss) <= WSub(c.snd_nxt, c.iss),
           WSub(c.snd_nxt, c.iss) < SeqHalf
    PROVE  /\ AckField(c, m) \in Conn
           /\ AckField(c, m).active = c.active
           /\ AckField(c, m).client = c.client
           /\ AckField(c, m).iss = c.iss
           /\ AckField(c, m).snd_nxt = c.snd_nxt
           /\ AckField(c, m).resp \in {c.resp, NoResp}
           /\ WSub(c.snd_una, c.iss) <= WSub(AckField(c, m).snd_una, c.iss)
           /\ WSub(AckField(c, m).snd_una, c.iss) <= WSub(c.snd_nxt, c.iss)
<1> DEFINE d == AckField(c, m)
<1>1. /\ c.iss \in SeqNums /\ c.snd_una \in SeqNums /\ c.snd_nxt \in SeqNums
      /\ m.ack \in SeqNums /\ m.win \in Nat
  BY TcpAssumption DEF Conn, ClientSegment
<1>t. WSub(c.snd_una, c.iss) \in Nat /\ WSub(c.snd_nxt, c.iss) \in Nat
  BY <1>1, WrapType
<1>2. CASE "ACK" \notin m.flags
  BY <1>2, <1>1, <1>t DEF AckField
<1>3. CASE "ACK" \in m.flags /\ ~InRange(c, m.ack)
  <2>1. d = [c EXCEPT !.peer_win = m.win]
    BY <1>3 DEF AckField
  <2> QED  BY <2>1, <1>1, <1>t DEF Conn
<1>4. CASE "ACK" \in m.flags /\ InRange(c, m.ack)
  <2> DEFINE r == IF FullyAcked(c, m.ack) THEN NoResp ELSE c.resp
  <2>1. d = [c EXCEPT !.peer_win = m.win, !.snd_una = m.ack,
                      !.rto_ms = RTO_BASE_MS, !.rto_attempts = 0, !.resp = r]
    BY <1>4 DEF AckField
  <2>2. r \in {c.resp, NoResp} /\ r \in [rid : Nat, total : Nat, fin_sent : BOOLEAN]
    BY DEF Conn, NoResp
  <2> HIDE DEF r
  <2>a. RTO_BASE_MS \in 0 .. RTO_MAX_MS /\ 0 \in 0 .. MAX_RTO_ATTEMPTS
    BY TcpAssumption
  <2>3. d \in Conn
    BY <2>1, <2>2, <2>a, <1>1 DEF Conn
  <2>4. /\ d.active = c.active /\ d.client = c.client /\ d.iss = c.iss
        /\ d.snd_nxt = c.snd_nxt /\ d.resp = r /\ d.snd_una = m.ack
    BY <2>1 DEF Conn
  <2>5. /\ WSub(c.snd_una, c.iss) < WSub(m.ack, c.iss)
        /\ WSub(m.ack, c.iss) <= WSub(c.snd_nxt, c.iss)
    BY <1>1, <1>4, AckWindow DEF InRange
  <2> QED  BY <2>2, <2>3, <2>4, <2>5, <1>1, <1>t, WrapType
<1> QED  BY <1>2, <1>3, <1>4

LEMMA SegmentType ==
    ASSUME NEW c \in Conn, c.client \in Clients, NEW f \in SUBSET Flags,
           NEW rid \in Nat, NEW off \in Nat, NEW len \in Nat
    PROVE  Segment(c, f, rid, off, len) \in ServerSegment
  BY DEF Segment, ServerSegment, Conn

LEMMA ControlType ==
    ASSUME NEW c \in Conn, c.client \in Clients, NEW f \in SUBSET Flags
    PROVE  Control(c, f) \in ServerSegment
  BY SegmentType DEF Control

\* A new connection: the SYN of the server is the only thing outstanding.
LEMMA SynInv ==
    ASSUME IInv, NEW m \in ClientSegment, RecvSyn(m)
    PROVE  IInv'
<1>1. PICK iss \in Iss :
        LET c == [NoConn EXCEPT !.active = TRUE, !.client = m.client,
                                !.rcv_nxt = WAdd(m.seq, 1),
                                !.iss = iss, !.snd_una = iss, !.snd_nxt = iss,
                                !.peer_win = m.win, !.rto_ms = RTO_BASE_MS]
        IN  /\ Send({Control(c, {"SYN", "ACK"})})
            /\ conn' = [c EXCEPT !.snd_nxt = WAdd(iss, 1)]
  BY DEF RecvSyn
<1> DEFINE c == [NoConn EXCEPT !.active = TRUE, !.client = m.client,
                               !.rcv_nxt = WAdd(m.seq, 1),
                               !.iss = iss, !.snd_una = iss, !.snd_nxt = iss,
                               !.peer_win = m.win, !.rto_ms = RTO_BASE_MS]
<1>2. /\ iss \in SeqNums /\ 1 \in SeqNums /\ m.seq \in SeqNums
      /\ m.client \in Clients /\ m.win \in Nat
      /\ RTO_BASE_MS \in 0 .. RTO_MAX_MS
  <2>1. 1 \in SeqNums
    BY TcpAssumption, SeqHalfAssumption DEF SeqNums, SeqMod
  <2>2. m.seq \in SeqNums /\ m.client \in Clients /\ m.win \in Windows
    BY DEF ClientSegment
  <2>3. RTO_BASE_MS \in 0 .. RTO_MAX_MS
    BY TcpAssumption
  <2>4. iss \in SeqNums /\ m.win \in Nat
    BY <2>2, TcpAssumption
  <2> QED  BY <2>1, <2>2, <2>3, <2>4
<1>3. WAdd(m.seq, 1) \in SeqNums /\ WAdd(iss, 1) \in SeqNums
  BY <1>2, WrapType
<1>4. c \in Conn /\ c.client \in Clients
  BY <1>2, <1>3, NoConnType DEF Conn
<1>5. conn' = [c EXCEPT !.snd_nxt = WAdd(iss, 1)] /\ s2c' = s2c \cup {Control(c, {"SYN", "ACK"})}
  BY <1>1 DEF Send
<1>6. Control(c, {"SYN", "ACK"}) \in ServerSegment
  <2> HIDE DEF c
  <2> QED  BY <1>4, ControlType DEF Flags
<1>7. /\ conn' \in Conn
      /\ conn'.active /\ conn'.client \in Clients /\ conn'.resp = NoResp
      /\ conn'.iss = iss /\ conn'.snd_una = iss /\ conn'.snd_nxt = WAdd(iss, 1)
  <2>1. /\ c.active /\ c.resp = NoResp /\ c.iss = iss /\ c.snd_una = iss
    BY NoConnType DEF NoConn
  <2> HIDE DEF c
  <2> QED  BY <2>1, <1>3, <1>4, <1>5 DEF Conn
<1>8. WSub(iss, iss) = 0 /\ WSub(WAdd(iss, 1), iss) = 1
  <2>1. WSub(iss, iss) = 0
    BY <1>2, SeqHalfAssumption DEF WSub, SeqNums, SeqMod
  <2> QED  BY <2>1, <1>2, Advance, TcpAssumption, SeqHalfAssumption DEF SeqMod
<1>9. TypeOK'
  <2> HIDE DEF c
  <2> QED  BY <1>5, <1>6, <1>7, TcpAssumption DEF RecvSyn, IInv, TypeOK
<1>10. SendInv'
  <2> HIDE DEF c
  <2>1. pump' = "no"
    BY DEF RecvSyn
  <2>2. (Off(conn.snd_una) = 0)' /\ (Off(conn.snd_nxt) = 1)'
    BY <1>7, <1>8 DEF Off
  <2>3. 1 < SeqHalf /\ 1 <= CWND + 2
    BY TcpAssumption, SeqHalfAssumption
  <2> QED  BY <1>7, <2>1, <2>2, <2>3 DEF SendInv
<1> QED  BY <1>9, <1>10 DEF IInv

\* Closing: the default connection satisfies the invariant.
LEMMA CloseInv ==
    ASSUME IInv, conn' = NoConn, routed' = 0, pump' = "no",
           s2c' \subseteq ServerSegment
    PROVE  IInv'
  BY NoConnType, TcpAssumption DEF IInv, TypeOK, SendInv, NoConn, NoResp

\* A segment of the active connection finds it in order.
LEMMA AcceptedAck ==
    ASSUME IInv, NEW m \in ClientSegment, Accepted(m)
    PROVE  LET d == AckField(conn, m)
           IN  /\ d \in Conn /\ d.active /\ d.client = conn.client
               /\ d.client \in Clients /\ d.iss = conn.iss
               /\ d.snd_nxt = conn.snd_nxt /\ d.resp \in {conn.resp, NoResp}
               /\ WSub(d.snd_una, d.iss) <= WSub(d.snd_nxt, d.iss)
               /\ WSub(d.snd_nxt, d.iss) < SeqHalf
               /\ WSub(d.snd_nxt, d.iss) - WSub(d.snd_una, d.iss) <= CWND + 2
<1>1. /\ conn \in Conn /\ conn.active /\ conn.client \in Clients
      /\ WSub(conn.snd_una, conn.iss) <= WSub(conn.snd_nxt, conn.iss)
      /\ WSub(conn.snd_nxt, conn.iss) < SeqHalf
      /\ WSub(conn.snd_nxt, conn.iss) - WSub(conn.snd_una, conn.iss) <= CWND + 2
  BY DEF IInv, TypeOK, SendInv, Off, Accepted, FromPeer
<1> DEFINE d == AckField(conn, m)
<1>2. /\ d \in Conn /\ d.active = conn.active /\ d.client = conn.client
      /\ d.iss = conn.iss /\ d.snd_nxt = conn.snd_nxt
      /\ d.resp \in {conn.resp, NoResp}
      /\ WSub(conn.snd_una, conn.iss) <= WSub(d.snd_una, conn.iss)
      /\ WSub(d.snd_una, conn.iss) <= WSub(conn.snd_nxt, conn.iss)
  BY <1>1, AckFieldInv
<1>3. /\ WSub(conn.snd_una, conn.iss) \in Nat /\ WSub(d.snd_una, conn.iss) \in Nat
      /\ WSub(conn.snd_nxt, conn.iss) \in Nat
  BY <1>1, <1>2, WrapType DEF Conn
<1> HIDE DEF d
<1>4. /\ WSub(d.snd_una, d.iss) <= WSub(d.snd_nxt, d.iss)
      /\ WSub(d.snd_nxt, d.iss) < SeqHalf
      /\ WSub(d.snd_nxt, d.iss) - WSub(d.snd_una, d.iss) <= CWND + 2
  BY <1>1, <1>2, <1>3, TcpAssumption
<1> QED  BY <1>1, <1>2, <1>4 DEF d

LEMMA DataInv ==
    ASSUME IInv, NEW m \in ClientSegment, RecvData(m)
    PROVE  IInv'
<1> DEFINE d == AckField(conn, m)
           c == [d EXCEPT !.rcv_nxt = WAdd(m.seq, m.len)]
<1>1. Accepted(m) /\ pump' = "window" /\ s2c' = s2c
  BY DEF RecvData
<1>2. /\ d \in Conn /\ d.active /\ d.client \in Clients
      /\ d.resp \in {conn.resp, NoResp}
      /\ WSub(d.snd_una, d.iss) <= WSub(d.snd_nxt, d.iss)
      /\ WSub(d.snd_nxt, d.iss) < SeqHalf
      /\ WSub(d.snd_nxt, d.iss) - WSub(d.snd_una, d.iss) <= CWND + 2
  BY <1>1, AcceptedAck
<1>3. m.seq \in SeqNums /\ m.len \in SeqNums
  BY TcpAssumption DEF ClientSegment
<1>4. /\ c \in Conn /\ c.active /\ c.client = d.client /\ c.iss = d.iss
      /\ c.snd_una = d.snd_una /\ c.snd_nxt = d.snd_nxt /\ c.resp = d.resp
  <2>1. WAdd(m.seq, m.len) \in SeqNums
    BY <1>3, WrapType
  <2> HIDE DEF d
  <2> QED  BY <2>1, <1>2 DEF Conn
<1>5. \/ conn' = c /\ c.resp # NoResp /\ routed' = routed
      \/ /\ routed < MaxRouted /\ routed' = routed + 1
         /\ \E total \in Totals :
              conn' = [c EXCEPT !.resp = [rid |-> routed + 1, total |-> total,
                                          fin_sent |-> FALSE]]
  BY DEF RecvData
<1> HIDE DEF c, d
<1>6. CASE conn' = c /\ c.resp # NoResp /\ routed' = routed
  <2>1. TypeOK'
    BY <1>1, <1>4, <1>6 DEF IInv, TypeOK
  <2>2. c.resp.total \in Totals
    BY <1>2, <1>4, <1>6 DEF IInv, SendInv
  <2>3. SendInv'
    BY <1>1, <1>2, <1>4, <1>6, <2>2 DEF SendInv, Off
  <2> QED  BY <2>1, <2>3 DEF IInv
<1>7. ASSUME NEW total \in Totals, routed < MaxRouted, routed' = routed + 1,
             conn' = [c EXCEPT !.resp = [rid |-> routed + 1, total |-> total,
                                         fin_sent |-> FALSE]]
      PROVE  IInv'
  <2>1. routed \in Nat /\ routed' \in 0 .. MaxRouted /\ total \in Nat
    BY <1>7, TcpAssumption DEF IInv, TypeOK
  <2> DEFINE r == [rid |-> routed + 1, total |-> total, fin_sent |-> FALSE]
  <2>r. r \in [rid : Nat, total : Nat, fin_sent : BOOLEAN] /\ r.total = total
    BY <2>1
  <2>2. conn' \in Conn
    <3> HIDE DEF r
    <3>1. conn' = [c EXCEPT !.resp = r]
      BY <1>7 DEF r
    <3> QED  BY <1>4, <3>1, <2>r DEF Conn
  <2>3. /\ conn'.active /\ conn'.client \in Clients /\ conn'.iss = d.iss
        /\ conn'.snd_una = d.snd_una /\ conn'.snd_nxt = d.snd_nxt
        /\ conn'.resp.total \in Totals
    BY <1>2, <1>4, <1>7 DEF Conn
  <2>4. TypeOK'
    BY <1>1, <2>1, <2>2 DEF IInv, TypeOK
  <2>5. SendInv'
    BY <1>1, <1>2, <2>3 DEF SendInv, Off
  <2> QED  BY <2>4, <2>5 DEF IInv
<1> QED  BY <1>5, <1>6, <1>7

LEMMA AckInv ==
    ASSUME IInv, NEW m \in ClientSegment, RecvAck(m)
    PROVE  IInv'
<1> DEFINE d == AckField(conn, m)
<1>1. Accepted(m) /\ conn' = d /\ pump' = "window" /\ routed' = routed /\ s2c' = s2c
  BY DEF RecvAck
<1>2. /\ d \in Conn /\ d.active /\ d.client \in Clients
      /\ d.resp \in {conn.resp, NoResp}
      /\ WSub(d.snd_una, d.iss) <= WSub(d.snd_nxt, d.iss)
      /\ WSub(d.snd_nxt, d.iss) < SeqHalf
      /\ WSub(d.snd_nxt, d.iss) - WSub(d.snd_una, d.iss) <= CWND + 2
  BY <1>1, AcceptedAck
<1> HIDE DEF d
<1>3. TypeOK'
  BY <1>1, <1>2 DEF IInv, TypeOK
<1>4. SendInv'
  BY <1>1, <1>2 DEF IInv, SendInv, Off
<1> QED  BY <1>3, <1>4 DEF IInv

LEMMA FinInv ==
    ASSUME IInv, NEW m \in ClientSegment, RecvFin(m)
    PROVE  IInv'
<1> DEFINE d == AckField(conn, m)
           c == [d EXCEPT !.rcv_nxt = WAdd(m.seq, 1)]
<1>1. /\ Accepted(m) /\ conn' = NoConn /\ routed' = 0 /\ pump' = pump
      /\ s2c' = s2c \cup {Control(c, {"ACK"})}
  BY DEF RecvFin, Send
<1>2. d \in Conn /\ d.client \in Clients
  BY <1>1, AcceptedAck
<1>3. WAdd(m.seq, 1) \in SeqNums
  <2>1. 1 \in SeqNums
    BY SeqHalfAssumption DEF SeqNums, SeqMod
  <2> QED  BY <2>1, WrapType DEF ClientSegment
<1>4. c \in Conn /\ c.client \in Clients
  <2> HIDE DEF d
  <2> QED  BY <1>2, <1>3 DEF Conn
<1> HIDE DEF c, d
<1>5. Control(c, {"ACK"}) \in ServerSegment
  BY <1>4, ControlType DEF Flags
<1> QED  BY <1>1, <1>5, CloseInv DEF Accepted, IInv, TypeOK

\* What pump() emits and how far it moves snd_nxt.
LEMMA PumpStep ==
    ASSUME IInv, PumpSegment
    PROVE  LET next == SentBytes(conn)
               n    == MinOf(Edge - next, MSS)
               off  == WSub(conn.snd_nxt, conn.iss)
               una  == WSub(conn.snd_una, conn.iss)
           IN  /\ next \in Nat /\ n \in Nat \ {0} /\ n <= MSS
               /\ Edge \in Nat /\ next + n <= Edge /\ Edge <= conn.resp.total
               /\ Edge <= AckedBytes(conn) + MaxOf(MinOf(conn.peer_win, CWND), 1)
               /\ Edge <= AckedBytes(conn) + CWND
               /\ AckedBytes(conn) \in Nat /\ AckedBytes(conn) <= una
               /\ off = next + 1 \/ (off = 0 /\ next = 0)
               /\ conn.active /\ conn.resp # NoResp /\ conn.resp.total \in Totals
<1> DEFINE next == SentBytes(conn)
           n    == MinOf(Edge - next, MSS)
           off  == WSub(conn.snd_nxt, conn.iss)
           una  == WSub(conn.snd_una, conn.iss)
           acked == AckedBytes(conn)
           total == conn.resp.total
<1>1. /\ conn \in Conn /\ conn.active /\ conn.resp # NoResp /\ total \in Totals
      /\ una <= off /\ off < SeqHalf /\ next < Edge
  BY DEF PumpSegment, IInv, TypeOK, SendInv, Off
<1>2. off \in Nat /\ una \in Nat /\ una < SeqHalf
  <2>1. off \in Nat /\ una \in Nat
    BY <1>1, WrapType DEF Conn
  <2> QED  BY <2>1, <1>1, SeqHalfAssumption
<1>3. total \in Nat \ {0} /\ conn.peer_win \in Nat
  BY <1>1, TcpAssumption DEF Conn
<1>4. next = IF off = 0 THEN 0 ELSE MinOf(off - 1, total)
  BY <1>1, <1>2, StreamBytesValue DEF SentBytes, Conn
<1>5. acked = IF una = 0 THEN 0 ELSE MinOf(una - 1, total)
  BY <1>1, <1>2, StreamBytesValue DEF AckedBytes, Conn
<1>6. PumpWindow \in Nat /\ PumpWindow <= CWND
      /\ PumpWindow <= MaxOf(MinOf(conn.peer_win, CWND), 1)
  BY <1>3, TcpAssumption DEF PumpWindow, SendWindow, MaxOf, MinOf
<1>7. Edge = MinOf(acked + PumpWindow, total)
  BY DEF Edge
<1> HIDE DEF next, n, off, una, acked, total
<1>8. next \in Nat /\ acked \in Nat /\ acked <= una
  BY <1>2, <1>3, <1>4, <1>5 DEF MinOf
<1>9. Edge \in Nat /\ Edge <= total /\ Edge <= acked + PumpWindow
  BY <1>3, <1>6, <1>7, <1>8 DEF MinOf
<1>10. MaxOf(MinOf(conn.peer_win, CWND), 1) \in Nat
  BY <1>3, TcpAssumption DEF MaxOf, MinOf
<1>11. Edge <= acked + CWND /\ Edge <= acked + MaxOf(MinOf(conn.peer_win, CWND), 1)
  BY <1>6, <1>8, <1>9, <1>10, TcpAssumption
<1>12. n \in Nat \ {0} /\ n <= MSS /\ next + n <= Edge
  BY <1>1, <1>8, <1>9, TcpAssumption DEF n, MinOf
<1>13. off = next + 1 \/ (off = 0 /\ next = 0)
  BY <1>1, <1>2, <1>3, <1>4, <1>9 DEF MinOf
<1> QED  BY <1>1, <1>8, <1>9, <1>11, <1>12, <1>13 DEF next, n, off, una, acked, total

LEMMA PumpInv ==
    ASSUME IInv, PumpSegment
    PROVE  IInv'
<1> DEFINE next == SentBytes(conn)
           n    == MinOf(Edge - next, MSS)
           last == IsLast(next, n)
           k    == IF last THEN n + 1 ELSE n
           f    == IF last THEN {"ACK", "FIN"} ELSE {"ACK"}
           off  == WSub(conn.snd_nxt, conn.iss)
           una  == WSub(conn.snd_una, conn.iss)
<1>1. /\ s2c' = s2c \cup {Segment(conn, f, conn.resp.rid, next, n)}
      /\ conn' = [conn EXCEPT !.snd_nxt = WAdd(@, k), !.sendAge = 0,
                              !.resp.fin_sent = @ \/ last]
      /\ pump' \in {pump, "no"} /\ routed' = routed
  BY DEF PumpSegment, Send
<1>2. /\ next \in Nat /\ n \in Nat \ {0} /\ n <= MSS /\ next + n <= Edge
      /\ Edge \in Nat /\ Edge <= conn.resp.total /\ Edge <= AckedBytes(conn) + CWND
      /\ AckedBytes(conn) \in Nat /\ AckedBytes(conn) <= una
      /\ off = next + 1 \/ (off = 0 /\ next = 0)
      /\ conn.active /\ conn.resp # NoResp /\ conn.resp.total \in Totals
  BY PumpStep
<1>3. /\ conn \in Conn /\ conn.client \in Clients /\ s2c \subseteq ServerSegment
      /\ una <= off /\ off < SeqHalf
  BY <1>2 DEF IInv, TypeOK, SendInv, Off
<1>4. /\ off \in Nat /\ una \in Nat
      /\ conn.snd_nxt \in SeqNums /\ conn.iss \in SeqNums /\ conn.rcv_nxt \in SeqNums
      /\ conn.resp.rid \in Nat /\ conn.resp.total \in Nat
      /\ conn.resp.total + 2 < SeqHalf
  BY <1>2, <1>3, WrapType, TcpAssumption DEF Conn
<1>5. Segment(conn, f, conn.resp.rid, next, n) \in ServerSegment
  <2>1. f \in SUBSET Flags
    BY DEF Flags
  <2> HIDE DEF f, next, n
  <2> QED  BY <1>2, <1>3, <1>4, <2>1, SegmentType
<1> HIDE DEF next, n, off, una, f, last
<1>6. /\ k \in Nat /\ next + k <= Edge + 1
      /\ off + k <= conn.resp.total + 2 /\ off + k <= una + CWND + 2
  <2>1. k \in {n, n + 1}
    OBVIOUS
  <2> HIDE DEF k
  <2> QED  BY <1>2, <1>4, <2>1, TcpAssumption
<1> HIDE DEF k
<1>7. /\ k \in SeqNums /\ off + k < SeqHalf /\ off + k < SeqMod
  BY <1>4, <1>6, SeqHalfAssumption DEF SeqNums, SeqMod
<1>8. WAdd(conn.snd_nxt, k) \in SeqNums
      /\ WSub(WAdd(conn.snd_nxt, k), conn.iss) = off + k
  BY <1>4, <1>7, WrapType, Advance DEF off
<1>b. last \in BOOLEAN
  BY DEF last, IsLast
<1>9. /\ conn' \in Conn /\ conn'.active = conn.active
      /\ conn'.client = conn.client /\ conn'.iss = conn.iss
      /\ conn'.snd_una = conn.snd_una /\ conn'.snd_nxt = WAdd(conn.snd_nxt, k)
      /\ conn'.resp.total = conn.resp.total
  <2>1. 0 \in 0 .. RTO_MAX_MS
    BY TcpAssumption
  <2> DEFINE r == [conn.resp EXCEPT !.fin_sent = @ \/ last]
  <2>2. r \in [rid : Nat, total : Nat, fin_sent : BOOLEAN] /\ r.total = conn.resp.total
    BY <1>3, <1>b DEF Conn
  <2>3. conn' = [conn EXCEPT !.snd_nxt = WAdd(@, k), !.sendAge = 0, !.resp = r]
    BY <1>1, <1>3 DEF Conn
  <2> HIDE DEF r
  <2> QED  BY <1>3, <1>8, <2>1, <2>2, <2>3 DEF Conn
<1>10. TypeOK'
  BY <1>1, <1>3, <1>5, <1>9 DEF IInv, TypeOK
<1>11. /\ Off(conn.snd_una)' = una /\ Off(conn.snd_nxt)' = off + k
  BY <1>8, <1>9 DEF Off, una
<1>12. una <= off + k /\ off + k - una <= CWND + 2
  BY <1>3, <1>4, <1>6, TcpAssumption
<1>13. /\ Off(conn.snd_una)' <= Off(conn.snd_nxt)' /\ Off(conn.snd_nxt)' < SeqHalf
       /\ Off(conn.snd_nxt)' - Off(conn.snd_una)' <= CWND + 2
  BY <1>4, <1>6, <1>7, <1>11, <1>12, SeqHalfAssumption, TcpAssumption
<1>14. SendInv'
  BY <1>2, <1>3, <1>9, <1>13 DEF SendInv
<1> QED  BY <1>10, <1>14 DEF IInv

LEMMA ResetInv ==
    ASSUME IInv, conn.active, pump = "no", ResetWithRst
    PROVE  IInv'
<1>1. Control(conn, {"RST"}) \in ServerSegment
  BY ControlType DEF IInv, TypeOK, SendInv, Flags
<1> QED  BY <1>1, CloseInv DEF ResetWithRst, Send, IInv, TypeOK

LEMMA RetransmitInv ==
    ASSUME IInv, TickRetransmit
    PROVE  IInv'
<1>1. /\ conn \in Conn /\ conn.active /\ conn.client \in Clients
      /\ conn.resp # NoResp /\ conn.resp.total \in Totals
      /\ Off(conn.snd_una) <= Off(conn.snd_nxt) /\ Off(conn.snd_nxt) < SeqHalf
  BY DEF IInv, TypeOK, SendInv, TickRetransmit, RtoFired, Outstanding
<1>2. /\ pump' = "probe" /\ routed' = routed /\ s2c' = s2c
      /\ conn.rto_attempts + 1 <= MAX_RTO_ATTEMPTS
      /\ conn' = [conn EXCEPT !.rto_attempts = @ + 1,
                              !.rto_ms = MinOf(2 * @, RTO_MAX_MS),
                              !.snd_nxt = conn.snd_una,
                              !.resp.fin_sent = FALSE]
  BY DEF TickRetransmit
<1> DEFINE r == [conn.resp EXCEPT !.fin_sent = FALSE]
<1>3. r \in [rid : Nat, total : Nat, fin_sent : BOOLEAN] /\ r.total = conn.resp.total
  BY <1>1 DEF Conn
<1>4. /\ conn.rto_attempts + 1 \in 0 .. MAX_RTO_ATTEMPTS
      /\ MinOf(2 * conn.rto_ms, RTO_MAX_MS) \in 0 .. RTO_MAX_MS
  <2>1. conn.rto_attempts \in Nat /\ conn.rto_ms \in Nat
    BY <1>1, TcpAssumption DEF Conn
  <2> QED  BY <1>2, <2>1, TcpAssumption DEF MinOf
<1>5. conn' = [conn EXCEPT !.rto_attempts = conn.rto_attempts + 1,
                           !.rto_ms = MinOf(2 * conn.rto_ms, RTO_MAX_MS),
                           !.snd_nxt = conn.snd_una, !.resp = r]
  BY <1>1, <1>2 DEF Conn
<1> HIDE DEF r
<1>6. /\ conn' \in Conn /\ conn'.active /\ conn'.client \in Clients
      /\ conn'.iss = conn.iss /\ conn'.snd_una = conn.snd_una
      /\ conn'.snd_nxt = conn.snd_una /\ conn'.resp.total \in Totals
  BY <1>1, <1>3, <1>4, <1>5 DEF Conn
<1>7. TypeOK'
  BY <1>2, <1>6 DEF IInv, TypeOK
<1>8. /\ Off(conn.snd_una)' = Off(conn.snd_una) /\ Off(conn.snd_nxt)' = Off(conn.snd_una)
      /\ Off(conn.snd_una) \in Nat /\ Off(conn.snd_una) < SeqHalf
  <2>1. Off(conn.snd_una) \in Nat /\ Off(conn.snd_nxt) \in Nat
    BY <1>1, WrapType DEF Off, Conn
  <2> QED  BY <1>1, <1>6, <2>1, SeqHalfAssumption DEF Off
<1>9. /\ Off(conn.snd_una)' <= Off(conn.snd_nxt)' /\ Off(conn.snd_nxt)' < SeqHalf
      /\ Off(conn.snd_nxt)' - Off(conn.snd_una)' <= CWND + 2
  BY <1>8, SeqHalfAssumption, TcpAssumption
<1>10. SendInv'
  BY <1>6, <1>9 DEF SendInv
<1> QED  BY <1>7, <1>10 DEF IInv

LEMMA ElapseInv ==
    ASSUME IInv, Elapse
    PROVE  IInv'
<1>1. conn \in Conn /\ pump' = pump /\ routed' = routed /\ s2c' = s2c
  BY DEF IInv, TypeOK, Elapse
<1>2. /\ MinOf(conn.sendAge + 1, RTO_MAX_MS) \in 0 .. RTO_MAX_MS
      /\ MinOf(conn.openAge + 1, MAX_CONN_MS + 1) \in 0 .. MAX_CONN_MS + 1
  <2>1. conn.sendAge \in Nat /\ conn.openAge \in Nat
    BY <1>1, TcpAssumption DEF Conn
  <2> QED  BY <2>1, TcpAssumption DEF MinOf
<1>3. conn' = [conn EXCEPT !.sendAge = MinOf(conn.sendAge + 1, RTO_MAX_MS),
                           !.openAge = MinOf(conn.openAge + 1, MAX_CONN_MS + 1)]
  BY <1>1 DEF Elapse, Conn
<1>4. /\ conn' \in Conn /\ conn'.active = conn.active /\ conn'.client = conn.client
      /\ conn'.iss = conn.iss /\ conn'.snd_una = conn.snd_una
      /\ conn'.snd_nxt = conn.snd_nxt /\ conn'.resp = conn.resp
  BY <1>1, <1>2, <1>3 DEF Conn
<1>5. TypeOK'
  BY <1>1, <1>4 DEF IInv, TypeOK
<1>6. SendInv'
  BY <1>1, <1>4 DEF IInv, SendInv, Off
<1> QED  BY <1>5, <1>6 DEF IInv

LEMMA NextIInv == IInv /\ [Next]_tcpVars => IInv'
<1> SUFFICES ASSUME IInv, [Next]_tcpVars PROVE IInv'
  OBVIOUS
<1>1. ASSUME NEW m \in ClientSegment, Process(m) PROVE IInv'
  <2>1. CASE RecvIgnored(m)
    BY <2>1 DEF RecvIgnored, tcpVars, IInv, TypeOK, SendInv, Off
  <2>2. CASE RecvRst(m)
    BY <2>2, CloseInv DEF RecvRst, IInv, TypeOK
  <2> QED
    BY <1>1, <2>1, <2>2, SynInv, DataInv, FinInv, AckInv DEF Process
<1>2. CASE PumpDone \/ PumpFails
  BY <1>2 DEF PumpDone, PumpFails, IInv, TypeOK, SendInv, Off
<1>3. CASE Tick
  BY <1>3, ResetInv, RetransmitInv DEF Tick, TickWatchdog, TickGiveUp, RtoFired
<1>4. CASE NetworkDrops
  BY <1>4 DEF NetworkDrops, IInv, TypeOK, SendInv, Off
<1>5. CASE UNCHANGED tcpVars
  BY <1>5 DEF tcpVars, IInv, TypeOK, SendInv, Off
<1> QED
  BY <1>1, <1>2, <1>3, <1>4, <1>5, PumpInv, ElapseInv DEF Next, ServerStep

LEMMA Invariance == Spec => []IInv
<1> QED  BY InitIInv, NextIInv, PTL DEF Spec

-----------------------------------------------------------------------------
(* The theorems *)

\* The state of the server keeps its types in any environment.
THEOREM TypeCorrect == Spec => []TypeOK
<1>1. IInv => TypeOK
  BY DEF IInv
<1> QED  BY <1>1, Invariance, PTL

\* snd_una never runs ahead of snd_nxt, for any ACK numbers and any ring.
THEOREM SendOrderHolds == Spec => []SendOrder
<1>1. IInv => SendOrder
  BY DEF IInv, SendInv, SendOrder
<1> QED  BY <1>1, Invariance, PTL

\* Never more than CWND bytes (and the SYN and the FIN) are outstanding.
THEOREM CwndBoundHolds == Spec => []CwndBound
<1>1. IInv => CwndBound
  <2> SUFFICES ASSUME IInv, conn.active
               PROVE  WSub(conn.snd_nxt, conn.snd_una) <= CWND + 2
    BY DEF CwndBound
  <2>1. /\ conn.snd_una \in SeqNums /\ conn.snd_nxt \in SeqNums
        /\ conn.iss \in SeqNums
    BY DEF IInv, TypeOK, Conn
  <2> QED  BY <2>1, Distance DEF IInv, SendInv, Off
<1> QED  BY <1>1, Invariance, PTL

\* A sequence number is its distance from the SYN, added back to the SYN.
LEMMA Recover ==
    ASSUME NEW a \in SeqNums, NEW b \in SeqNums
    PROVE  a = WAdd(b, WSub(a, b))
BY SeqHalfAssumption DEF SeqNums, SeqMod, WAdd, WSub

\* The segment pump() sends is one that Emission allows.
LEMMA PumpEmits ==
    ASSUME IInv, PumpSegment, NEW m \in s2c' \ s2c
    PROVE  Emission(m)
<1> DEFINE next == SentBytes(conn)
           n    == MinOf(Edge - next, MSS)
           off  == WSub(conn.snd_nxt, conn.iss)
           f    == IF IsLast(next, n) THEN {"ACK", "FIN"} ELSE {"ACK"}
<1>1. m = Segment(conn, f, conn.resp.rid, next, n)
  BY DEF PumpSegment, Send
<1>2. /\ next \in Nat /\ n \in Nat \ {0} /\ n <= MSS /\ next + n <= Edge
      /\ Edge \in Nat /\ Edge <= conn.resp.total
      /\ Edge <= AckedBytes(conn) + MaxOf(MinOf(conn.peer_win, CWND), 1)
      /\ AckedBytes(conn) \in Nat /\ conn.resp.total \in Totals
      /\ off = next + 1 \/ (off = 0 /\ next = 0)
  BY PumpStep
<1>3. /\ conn.snd_nxt \in SeqNums /\ conn.iss \in SeqNums /\ conn.peer_win \in Nat
  BY DEF IInv, TypeOK, Conn
<1>4. conn.snd_nxt = WAdd(conn.iss, off)
  BY <1>3, Recover
<1> HIDE DEF next, n, off, f
<1>5. m.seq = conn.snd_nxt /\ m.rid = conn.resp.rid /\ m.off = next /\ m.len = n
  BY <1>1 DEF Segment
<1>6. WAdd(conn.iss, 0) = conn.iss
  BY <1>3, SeqHalfAssumption DEF WAdd, SeqNums, SeqMod
<1>7. m.seq = WAdd(conn.iss, m.off + 1) \/ (m.seq = conn.iss /\ m.off = 0)
  BY <1>2, <1>4, <1>5, <1>6
<1>8. MaxOf(MinOf(conn.peer_win, CWND), 1) \in Nat
  BY <1>3, TcpAssumption DEF MaxOf, MinOf
<1>9. conn.resp.total \in Nat
  BY DEF IInv, TypeOK, Conn
<1>10. /\ m.off + m.len <= conn.resp.total
       /\ m.off + m.len <= AckedBytes(conn) + MaxOf(MinOf(conn.peer_win, CWND), 1)
  BY <1>2, <1>5, <1>8, <1>9
<1> QED  BY <1>2, <1>5, <1>7, <1>10 DEF Emission

\* Every other step sends segments without payload only.
LEMMA OthersEmitNothing ==
    ASSUME [Next]_tcpVars, ~PumpSegment, NEW m \in s2c' \ s2c
    PROVE  m.len = 0
<1>1. ASSUME NEW x \in ClientSegment, Process(x) PROVE m.len = 0
  <2>1. CASE RecvSyn(x)
    BY <2>1 DEF RecvSyn, Send, Control, Segment
  <2>2. CASE RecvFin(x)
    BY <2>2 DEF RecvFin, Send, Control, Segment
  <2>3. CASE RecvIgnored(x) \/ RecvRst(x) \/ RecvData(x) \/ RecvAck(x)
    BY <2>3 DEF RecvIgnored, RecvRst, RecvData, RecvAck, tcpVars
  <2> QED  BY <1>1, <2>1, <2>2, <2>3 DEF Process
<1>2. CASE Tick
  BY <1>2 DEF Tick, TickWatchdog, TickGiveUp, TickRetransmit, ResetWithRst,
              Send, Control, Segment
<1> QED
  BY <1>1, <1>2 DEF Next, ServerStep, PumpDone, PumpFails, Elapse, NetworkDrops, tcpVars

\* Every data segment the server ever sends, first transmission or
\* retransmission, lies inside the response, inside the granted window, and at
\* the sequence number of its offset (pump(), read_response()).
THEOREM EmissionHolds == Spec => EmissionOK
<1>1. IInv /\ [Next]_tcpVars
        => [\A m \in s2c' \ s2c : m.len > 0 => Emission(m)]_tcpVars
  <2> SUFFICES ASSUME IInv, [Next]_tcpVars, NEW m \in s2c' \ s2c, m.len > 0
               PROVE  Emission(m)
    OBVIOUS
  <2>1. CASE PumpSegment
    BY <2>1, PumpEmits
  <2>2. CASE ~PumpSegment
    BY <2>2, OthersEmitNothing
  <2> QED  BY <2>1, <2>2
<1> QED  BY <1>1, Invariance, PTL DEF Spec, EmissionOK

-----------------------------------------------------------------------------
(* One page of a fixed length, in any environment: what a connection has   *)
(* sent of it and what is acknowledged.                                    *)

\* A connection that has not been asked has sent its SYN only.  A later
\* response of the same connection has nothing left to send: it is only built
\* when the first has been acknowledged to its end.
SpentInv(L) ==
    /\ conn.active => conn.iss \in Iss /\ Off(conn.snd_nxt) <= L + 2
    /\ conn.active /\ routed = 0 => Off(conn.snd_nxt) = 1
    /\ conn.resp # NoResp =>
         routed >= 1 /\ conn.resp.rid = routed /\ conn.resp.total = L
    /\ conn.resp.fin_sent => conn.active /\ Off(conn.snd_nxt) >= L + 1
    /\ conn.active /\ (routed > 1 \/ (routed = 1 /\ conn.resp = NoResp))
         => Off(conn.snd_una) >= L + 1

\* Bytes of a response, in their place after initial number i.
InPlace(m, i) ==
    m.seq = WAdd(i, m.off + 1) \/ (m.seq = i /\ m.off = 0)

LEMMA LengthType ==
    ASSUME NEW L \in Totals
    PROVE  L \in Nat \ {0} /\ L + 2 < SeqHalf
  BY TcpAssumption

\* The connection that a SYN leaves.
LEMMA SynConn ==
    ASSUME NEW m \in ClientSegment, RecvSyn(m)
    PROVE  /\ conn'.active /\ conn'.client = m.client /\ conn'.resp = NoResp
           /\ conn'.iss \in Iss /\ conn'.snd_una = conn'.iss
           /\ WSub(conn'.snd_nxt, conn'.iss) = 1
           /\ WSub(conn'.snd_una, conn'.iss) = 0
           /\ routed' = 0 /\ pump' = pump /\ "SYN" \in m.flags
           /\ \A x \in s2c' \ s2c : /\ x.len = 0 /\ x.seq = conn'.iss
                                    /\ x.flags = {"SYN", "ACK"}
                                    /\ x.client = m.client
<1>1. PICK iss \in Iss :
        LET c == [NoConn EXCEPT !.active = TRUE, !.client = m.client,
                                !.rcv_nxt = WAdd(m.seq, 1),
                                !.iss = iss, !.snd_una = iss, !.snd_nxt = iss,
                                !.peer_win = m.win, !.rto_ms = RTO_BASE_MS]
        IN  /\ Send({Control(c, {"SYN", "ACK"})})
            /\ conn' = [c EXCEPT !.snd_nxt = WAdd(iss, 1)]
  BY DEF RecvSyn
<1> DEFINE c == [NoConn EXCEPT !.active = TRUE, !.client = m.client,
                               !.rcv_nxt = WAdd(m.seq, 1),
                               !.iss = iss, !.snd_una = iss, !.snd_nxt = iss,
                               !.peer_win = m.win, !.rto_ms = RTO_BASE_MS]
<1>2. /\ conn' = [c EXCEPT !.snd_nxt = WAdd(iss, 1)]
      /\ s2c' = s2c \cup {Control(c, {"SYN", "ACK"})}
  BY <1>1 DEF Send
<1>3. /\ c.active /\ c.client = m.client /\ c.resp = NoResp /\ c.iss = iss
      /\ c.snd_una = iss /\ c.snd_nxt = iss
  BY DEF NoConn
<1>4. /\ conn'.active /\ conn'.client = m.client /\ conn'.resp = NoResp
      /\ conn'.iss = iss /\ conn'.snd_una = iss /\ conn'.snd_nxt = WAdd(iss, 1)
  BY <1>2 DEF NoConn
<1>5. WSub(iss, iss) = 0 /\ WSub(WAdd(iss, 1), iss) = 1
  <2>1. iss \in SeqNums /\ 1 \in SeqNums
    BY TcpAssumption, SeqHalfAssumption DEF SeqNums, SeqMod
  <2>2. WSub(iss, iss) = 0
    BY <2>1 DEF WSub, SeqNums, SeqMod
  <2> QED  BY <2>1, <2>2, Advance, TcpAssumption, SeqHalfAssumption DEF SeqMod
<1>6. ASSUME NEW x \in s2c' \ s2c
      PROVE  x.len = 0 /\ x.seq = iss /\ x.flags = {"SYN", "ACK"} /\ x.client = m.client
  <2> HIDE DEF c
  <2>1. x = Control(c, {"SYN", "ACK"})
    BY <1>2
  <2> QED  BY <1>3, <2>1 DEF Control, Segment
<1> QED  BY <1>4, <1>5, <1>6 DEF RecvSyn

\* What the ACK field of an accepted segment does to the response.
LEMMA AckSpent ==
    ASSUME IInv, NEW m \in ClientSegment, Accepted(m)
    PROVE  LET d == AckField(conn, m)
           IN  /\ d \in Conn /\ d.active /\ conn.active
               /\ d.iss = conn.iss /\ d.snd_nxt = conn.snd_nxt
               /\ WSub(conn.snd_una, conn.iss) \in Nat
               /\ WSub(d.snd_una, conn.iss) \in Nat
               /\ WSub(conn.snd_nxt, conn.iss) \in Nat
               /\ WSub(conn.snd_una, conn.iss) <= WSub(d.snd_una, conn.iss)
               /\ \/ d.resp = conn.resp
                  \/ d.resp = NoResp /\ conn.resp.fin_sent /\ d.snd_una = conn.snd_nxt
<1> DEFINE d == AckField(conn, m)
<1>1. /\ conn \in Conn /\ conn.active
      /\ WSub(conn.snd_una, conn.iss) <= WSub(conn.snd_nxt, conn.iss)
      /\ WSub(conn.snd_nxt, conn.iss) < SeqHalf
  BY DEF IInv, TypeOK, SendInv, Off, Accepted, FromPeer
<1>2. /\ d \in Conn /\ d.active = conn.active
      /\ d.iss = conn.iss /\ d.snd_nxt = conn.snd_nxt
      /\ WSub(conn.snd_una, conn.iss) <= WSub(d.snd_una, conn.iss)
  BY <1>1, AckFieldInv
<1>3. /\ WSub(conn.snd_una, conn.iss) \in Nat /\ WSub(d.snd_una, conn.iss) \in Nat
      /\ WSub(conn.snd_nxt, conn.iss) \in Nat
  BY <1>1, <1>2, WrapType DEF Conn
<1>4. \/ d.resp = conn.resp
      \/ d.resp = NoResp /\ conn.resp.fin_sent /\ d.snd_una = conn.snd_nxt
  <2>1. CASE "ACK" \notin m.flags
    BY <2>1 DEF AckField
  <2>2. CASE "ACK" \in m.flags /\ ~InRange(conn, m.ack)
    BY <1>1, <2>2 DEF AckField, Conn
  <2>3. CASE "ACK" \in m.flags /\ InRange(conn, m.ack)
    <3> DEFINE r == IF FullyAcked(conn, m.ack) THEN NoResp ELSE conn.resp
    <3>1. d = [conn EXCEPT !.peer_win = m.win, !.snd_una = m.ack,
                           !.rto_ms = RTO_BASE_MS, !.rto_attempts = 0, !.resp = r]
      BY <2>3 DEF AckField
    <3>2. r = conn.resp \/ (r = NoResp /\ conn.resp.fin_sent /\ m.ack = conn.snd_nxt)
      BY DEF FullyAcked
    <3> HIDE DEF r
    <3>3. d.resp = r /\ d.snd_una = m.ack
      BY <1>1, <3>1 DEF Conn
    <3> QED  BY <3>2, <3>3
  <2> QED  BY <2>1, <2>2, <2>3
<1> QED  BY <1>1, <1>2, <1>3, <1>4

\* A connection that is not there keeps SpentInv.
LEMMA SpentClosed ==
    ASSUME NEW L, conn' = NoConn
    PROVE  SpentInv(L)'
  BY DEF SpentInv, NoConn, NoResp

LEMMA SpentSyn ==
    ASSUME NEW L \in Totals, NEW m \in ClientSegment, RecvSyn(m)
    PROVE  SpentInv(L)'
<1>1. /\ conn'.active /\ conn'.resp = NoResp /\ conn'.iss \in Iss
      /\ WSub(conn'.snd_nxt, conn'.iss) = 1 /\ routed' = 0
  BY SynConn
<1> QED  BY <1>1, LengthType DEF SpentInv, NoResp, Off

LEMMA SpentAck ==
    ASSUME NEW L \in Totals, IInv, SpentInv(L), NEW m \in ClientSegment, RecvAck(m)
    PROVE  SpentInv(L)'
<1> DEFINE d == AckField(conn, m)
<1>1. Accepted(m) /\ conn' = d /\ routed' = routed
  BY DEF RecvAck
<1>2. /\ d \in Conn /\ d.active /\ conn.active
      /\ d.iss = conn.iss /\ d.snd_nxt = conn.snd_nxt
      /\ WSub(conn.snd_una, conn.iss) \in Nat
      /\ WSub(d.snd_una, conn.iss) \in Nat
      /\ WSub(conn.snd_nxt, conn.iss) \in Nat
      /\ WSub(conn.snd_una, conn.iss) <= WSub(d.snd_una, conn.iss)
      /\ \/ d.resp = conn.resp
         \/ d.resp = NoResp /\ conn.resp.fin_sent /\ d.snd_una = conn.snd_nxt
  BY <1>1, AckSpent
<1> HIDE DEF d
<1>3. NoResp.fin_sent = FALSE
  BY DEF NoResp
<1> QED  BY <1>1, <1>2, <1>3, LengthType DEF SpentInv, Off

LEMMA SpentData ==
    ASSUME NEW L \in Totals, IInv, SpentInv(L),
           NEW m \in ClientSegment, RecvData(m),
           conn'.resp = NoResp \/ conn'.resp.total = L
    PROVE  SpentInv(L)'
<1> DEFINE d == AckField(conn, m)
           c == [d EXCEPT !.rcv_nxt = WAdd(m.seq, m.len)]
<1>1. Accepted(m)
  BY DEF RecvData
<1>2. /\ d \in Conn /\ d.active /\ conn.active
      /\ d.iss = conn.iss /\ d.snd_nxt = conn.snd_nxt
      /\ WSub(conn.snd_una, conn.iss) \in Nat
      /\ WSub(d.snd_una, conn.iss) \in Nat
      /\ WSub(conn.snd_nxt, conn.iss) \in Nat
      /\ WSub(conn.snd_una, conn.iss) <= WSub(d.snd_una, conn.iss)
      /\ \/ d.resp = conn.resp
         \/ d.resp = NoResp /\ conn.resp.fin_sent /\ d.snd_una = conn.snd_nxt
  BY <1>1, AckSpent
<1>3. \/ /\ c.resp = NoResp /\ routed' = routed + 1
         /\ \E total \in Totals :
              conn' = [c EXCEPT !.resp = [rid |-> routed + 1, total |-> total,
                                          fin_sent |-> FALSE]]
      \/ c.resp # NoResp /\ conn' = c /\ routed' = routed
  BY DEF RecvData
<1> HIDE DEF d
<1>4. /\ c.active /\ c.iss = conn.iss /\ c.snd_nxt = conn.snd_nxt
      /\ c.snd_una = d.snd_una /\ c.resp = d.resp
  BY <1>2 DEF Conn
<1>5. NoResp.fin_sent = FALSE /\ routed \in Nat
  BY TcpAssumption DEF NoResp, IInv, TypeOK
<1>6. CASE c.resp # NoResp /\ conn' = c /\ routed' = routed
  <2> HIDE DEF c
  <2> QED  BY <1>2, <1>4, <1>5, <1>6, LengthType DEF SpentInv, Off
<1>7. CASE c.resp = NoResp /\ routed' = routed + 1
           /\ \E total \in Totals :
                conn' = [c EXCEPT !.resp = [rid |-> routed + 1, total |-> total,
                                            fin_sent |-> FALSE]]
  <2>1. PICK total \in Totals :
          conn' = [c EXCEPT !.resp = [rid |-> routed + 1, total |-> total,
                                      fin_sent |-> FALSE]]
    BY <1>7
  <2>2. /\ conn'.active /\ conn'.iss = conn.iss /\ conn'.snd_nxt = conn.snd_nxt
        /\ conn'.snd_una = d.snd_una
        /\ conn'.resp = [rid |-> routed + 1, total |-> total, fin_sent |-> FALSE]
    BY <1>2, <2>1 DEF Conn
  <2>3. conn'.resp.rid = routed' /\ ~conn'.resp.fin_sent /\ routed' >= 1
    BY <1>5, <1>7, <2>2
  <2>4. routed >= 1 => WSub(d.snd_una, conn.iss) >= L + 1
    <3>1. d.resp = NoResp
      BY <1>4, <1>7
    <3> QED  BY <1>2, <1>5, <3>1, LengthType DEF SpentInv, Off
  <2>5. conn'.resp # NoResp
    BY <1>5, <1>7, <2>3 DEF NoResp
  <2>6. routed' > 1 => WSub(conn'.snd_una, conn'.iss) >= L + 1
    BY <1>5, <1>7, <2>2, <2>4
  <2>7. conn'.iss \in Iss /\ WSub(conn'.snd_nxt, conn'.iss) <= L + 2
    BY <1>2, <2>2 DEF SpentInv, Off
  <2>8. conn'.resp.total = L
    BY <2>5
  <2> QED  BY <2>2, <2>3, <2>5, <2>6, <2>7, <2>8 DEF SpentInv, Off
<1> QED  BY <1>3, <1>6, <1>7

LEMMA SpentProcess ==
    ASSUME NEW L \in Totals, IInv, SpentInv(L),
           NEW m \in ClientSegment, Process(m),
           conn'.resp = NoResp \/ conn'.resp.total = L
    PROVE  SpentInv(L)'
<1>1. CASE RecvIgnored(m)
  BY <1>1 DEF RecvIgnored, tcpVars, SpentInv, Off
<1>2. CASE RecvRst(m) \/ RecvFin(m)
  BY <1>2, SpentClosed DEF RecvRst, RecvFin
<1> QED  BY <1>1, <1>2, SpentSyn, SpentData, SpentAck DEF Process

LEMMA SpentPump ==
    ASSUME NEW L \in Totals, IInv, SpentInv(L), PumpSegment
    PROVE  /\ SpentInv(L)' /\ routed = 1 /\ routed' = 1
           /\ conn.active /\ conn.resp # NoResp /\ conn'.active
           /\ conn'.client = conn.client /\ conn'.iss = conn.iss
           /\ conn'.snd_una = conn.snd_una
           /\ conn'.resp.fin_sent /\ Off(conn.snd_nxt) # 0
                => Off(conn.snd_nxt)' = L + 2
<1> DEFINE next == SentBytes(conn)
           n    == MinOf(Edge - next, MSS)
           last == IsLast(next, n)
           k    == IF last THEN n + 1 ELSE n
           off  == WSub(conn.snd_nxt, conn.iss)
           una  == WSub(conn.snd_una, conn.iss)
<1>1. /\ conn' = [conn EXCEPT !.snd_nxt = WAdd(@, k), !.sendAge = 0,
                              !.resp.fin_sent = @ \/ last]
      /\ routed' = routed
  BY DEF PumpSegment
<1>2. /\ next \in Nat /\ n \in Nat \ {0} /\ next + n <= Edge
      /\ Edge \in Nat /\ Edge <= conn.resp.total
      /\ off = next + 1 \/ (off = 0 /\ next = 0)
      /\ conn.active /\ conn.resp # NoResp /\ conn.resp.total \in Totals
  BY PumpStep
<1>3. conn \in Conn /\ off \in Nat /\ una \in Nat /\ una <= off /\ routed \in Nat
  <2>1. conn \in Conn /\ una <= off /\ routed \in Nat
    BY <1>2, TcpAssumption DEF IInv, TypeOK, SendInv, Off
  <2> QED  BY <2>1, WrapType DEF Conn
<1>4. conn.resp.total = L
  BY <1>2 DEF SpentInv
<1>5. last = (next + n >= L)
  BY <1>4 DEF IsLast
<1> HIDE DEF next, n, off, una, last
<1>6. off <= L /\ una <= L
  BY <1>2, <1>3, <1>4, LengthType
<1>7. routed = 1
  BY <1>2, <1>3, <1>6, LengthType DEF SpentInv, Off, una
<1>8. k \in Nat /\ off + k <= L + 2
  BY <1>2, <1>4, LengthType
<1>9. last => off + k >= L + 1
  <2>1. last => k = n + 1 /\ next + n >= L
    BY <1>5
  <2> HIDE DEF k
  <2> QED  BY <1>2, <1>3, <1>8, <2>1, LengthType
<1> HIDE DEF k
<1>10. WSub(WAdd(conn.snd_nxt, k), conn.iss) = off + k
  <2>1. /\ conn.snd_nxt \in SeqNums /\ conn.iss \in SeqNums /\ k \in SeqNums
        /\ off + k < SeqMod
    BY <1>3, <1>8, LengthType, SeqHalfAssumption DEF Conn, SeqNums, SeqMod
  <2> QED  BY <2>1, Advance DEF off
<1>b. last \in BOOLEAN
  BY DEF last, IsLast
<1> DEFINE r == [conn.resp EXCEPT !.fin_sent = @ \/ last]
<1>11. /\ r.fin_sent = (conn.resp.fin_sent \/ last) /\ r.rid = conn.resp.rid
       /\ r.total = conn.resp.total
  BY <1>3, <1>b DEF Conn
<1>12. conn' = [conn EXCEPT !.snd_nxt = WAdd(@, k), !.sendAge = 0, !.resp = r]
  BY <1>1, <1>3 DEF Conn
<1> HIDE DEF r
<1>13. /\ conn'.active /\ conn'.iss = conn.iss /\ conn'.snd_una = conn.snd_una
       /\ conn'.snd_nxt = WAdd(conn.snd_nxt, k) /\ conn'.resp = r
       /\ conn'.client = conn.client
  BY <1>2, <1>3, <1>12 DEF Conn
<1>14. r # NoResp
  BY <1>4, <1>11, LengthType DEF NoResp
<1>15. conn'.resp.fin_sent => Off(conn.snd_nxt)' >= L + 1
  <2>1. conn.resp.fin_sent => off >= L + 1
    BY DEF SpentInv, Off, off
  <2>2. conn.resp.fin_sent \in BOOLEAN
    BY <1>3 DEF Conn
  <2> QED  BY <1>3, <1>8, <1>9, <1>10, <1>11, <1>13, <2>1, <2>2, <1>b, LengthType DEF Off
<1>16. Off(conn.snd_nxt)' <= L + 2
  BY <1>8, <1>10, <1>13 DEF Off
<1>17. conn'.resp.fin_sent /\ off # 0 => Off(conn.snd_nxt)' = L + 2
  <2> SUFFICES ASSUME conn'.resp.fin_sent, off # 0
               PROVE  off + k = L + 2
    BY <1>10, <1>13 DEF Off
  <2>1. ~conn.resp.fin_sent
    BY <1>3, <1>6, LengthType DEF SpentInv, Off, off
  <2>2. last
    BY <1>11, <1>13, <2>1
  <2>3. k = n + 1 /\ next + n >= L
    BY <1>5, <2>2 DEF k
  <2> QED  BY <1>2, <1>3, <1>4, <2>3, LengthType
<1>18. SpentInv(L)'
  BY <1>1, <1>2, <1>4, <1>7, <1>11, <1>13, <1>14, <1>15, <1>16 DEF SpentInv
<1> QED  BY <1>1, <1>2, <1>7, <1>13, <1>17, <1>18 DEF Off, off

LEMMA SpentTick ==
    ASSUME NEW L \in Totals, IInv, SpentInv(L), Tick
    PROVE  SpentInv(L)'
<1>1. CASE TickWatchdog \/ TickGiveUp
  BY <1>1, SpentClosed DEF TickWatchdog, TickGiveUp, ResetWithRst
<1>2. CASE TickRetransmit
  <2> DEFINE r == [conn.resp EXCEPT !.fin_sent = FALSE]
  <2>1. conn \in Conn /\ conn.resp # NoResp /\ conn.active
    BY <1>2 DEF TickRetransmit, RtoFired, Outstanding, IInv, TypeOK
  <2>2. conn' = [conn EXCEPT !.rto_attempts = @ + 1, !.rto_ms = MinOf(2 * @, RTO_MAX_MS),
                             !.snd_nxt = conn.snd_una, !.resp = r]
    BY <1>2, <2>1 DEF TickRetransmit, Conn
  <2>3. ~r.fin_sent /\ r.rid = conn.resp.rid /\ r.total = conn.resp.total
    BY <2>1 DEF Conn
  <2>4. conn.resp.total = L /\ routed >= 1
    BY <2>1 DEF SpentInv
  <2> HIDE DEF r
  <2>5. /\ conn'.active /\ conn'.iss = conn.iss /\ conn'.snd_una = conn.snd_una
        /\ conn'.resp = r /\ conn'.snd_nxt = conn.snd_una /\ routed' = routed
    BY <1>2, <2>1, <2>2 DEF Conn, TickRetransmit
  <2>6. r # NoResp
    BY <2>3, <2>4, LengthType DEF NoResp
  <2>7. Off(conn.snd_una) <= L + 2
    <3>1. Off(conn.snd_una) \in Nat /\ Off(conn.snd_nxt) \in Nat
      BY <2>1, WrapType DEF Off, Conn
    <3>2. Off(conn.snd_una) <= Off(conn.snd_nxt) /\ Off(conn.snd_nxt) <= L + 2
      BY <2>1 DEF IInv, SendInv, SpentInv
    <3> QED  BY <3>1, <3>2, LengthType
  <2>8. routed \in Nat
    BY TcpAssumption DEF IInv, TypeOK
  <2> QED  BY <2>1, <2>3, <2>4, <2>5, <2>6, <2>7, <2>8 DEF SpentInv, Off
<1> QED  BY <1>1, <1>2 DEF Tick

LEMMA SpentElapse ==
    ASSUME NEW L \in Totals, IInv, SpentInv(L), Elapse
    PROVE  SpentInv(L)'
<1>1. /\ conn \in Conn /\ routed' = routed
      /\ conn' = [conn EXCEPT !.sendAge = MinOf(@ + 1, RTO_MAX_MS),
                              !.openAge = MinOf(@ + 1, MAX_CONN_MS + 1)]
  BY DEF Elapse, IInv, TypeOK
<1>2. /\ conn'.active = conn.active /\ conn'.iss = conn.iss /\ conn'.resp = conn.resp
      /\ conn'.snd_una = conn.snd_una /\ conn'.snd_nxt = conn.snd_nxt
  BY <1>1 DEF Conn
<1> QED  BY <1>1, <1>2 DEF SpentInv, Off

-----------------------------------------------------------------------------
(* What the server puts on the wire *)

LEMMA ProcessSends ==
    ASSUME NEW m \in ClientSegment, Process(m), NEW x \in s2c' \ s2c
    PROVE  x.len = 0 /\ ("SYN" \in x.flags => x.seq \in Iss)
<1>1. CASE RecvSyn(m)
  BY <1>1, SynConn
<1>2. CASE RecvFin(m)
  BY <1>2 DEF RecvFin, Send, Control, Segment
<1>3. CASE RecvIgnored(m) \/ RecvRst(m) \/ RecvData(m) \/ RecvAck(m)
  BY <1>3 DEF RecvIgnored, RecvRst, RecvData, RecvAck, tcpVars
<1> QED  BY <1>1, <1>2, <1>3 DEF Process

LEMMA TickSends ==
    ASSUME Tick, NEW x \in s2c' \ s2c
    PROVE  x.len = 0 /\ "SYN" \notin x.flags
  BY DEF Tick, TickWatchdog, TickGiveUp, TickRetransmit, ResetWithRst,
         Send, Control, Segment

LEMMA PumpSends ==
    ASSUME NEW L \in Totals, IInv, SpentInv(L), PumpSegment, NEW x \in s2c' \ s2c
    PROVE  /\ x.rid = 1 /\ x.off + x.len <= L
           /\ conn.iss \in Iss /\ InPlace(x, conn.iss)
           /\ x.client = conn.client /\ x.seq = conn.snd_nxt
           /\ "FIN" \in x.flags => x.off + x.len = L
           /\ "SYN" \notin x.flags
<1> DEFINE next == SentBytes(conn)
           n    == MinOf(Edge - next, MSS)
           f    == IF IsLast(next, n) THEN {"ACK", "FIN"} ELSE {"ACK"}
<1>1. Emission(x)
  BY PumpEmits
<1>2. conn.active /\ conn.resp # NoResp /\ conn.resp.total \in Totals
  BY PumpStep
<1>3. conn.iss \in Iss /\ conn.resp.rid = 1 /\ conn.resp.total = L
  BY <1>2, SpentPump DEF SpentInv
<1>4. x = Segment(conn, f, conn.resp.rid, next, n)
  BY DEF PumpSegment, Send
<1>5. /\ x.client = conn.client /\ x.seq = conn.snd_nxt /\ x.flags = f
      /\ x.off = next /\ x.len = n
  BY <1>4 DEF Segment
<1>6. "FIN" \in x.flags => x.off + x.len >= L
  BY <1>3, <1>5 DEF IsLast
<1>7. "SYN" \notin x.flags
  BY <1>5
<1>8. x.off + x.len <= L /\ x.off + x.len \in Nat
  <2>1. next \in Nat /\ n \in Nat
    BY PumpStep
  <2> HIDE DEF next, n
  <2> QED  BY <1>1, <1>3, <1>5, <2>1 DEF Emission
<1>9. "FIN" \in x.flags => x.off + x.len = L
  BY <1>6, <1>8, LengthType
<1> QED  BY <1>1, <1>3, <1>5, <1>7, <1>8, <1>9 DEF Emission, InPlace

-----------------------------------------------------------------------------
(* What a client has of the page *)

\* A byte of the stream: byte off of response rid.
Byte == [rid : Nat, off : Nat]

\* Payload that starts where the response ends extends the prefix.
LEMMA ExtendPrefix ==
    ASSUME NEW s \in Seq(Byte), NEW n \in Nat,
           \A i \in 1 .. Len(s) : s[i] = [rid |-> 1, off |-> i - 1]
    PROVE  LET p == [i \in 1 .. n |-> [rid |-> 1, off |-> Len(s) + i - 1]]
               t == s \o p
           IN  /\ t \in Seq(Byte) /\ Len(t) = Len(s) + n
               /\ \A i \in 1 .. Len(t) : t[i] = [rid |-> 1, off |-> i - 1]
<1> DEFINE p == [i \in 1 .. n |-> [rid |-> 1, off |-> Len(s) + i - 1]]
           t == s \o p
<1>1. Len(s) \in Nat
  OBVIOUS
<1>2. \A i \in 1 .. n : p[i] \in Byte
  BY <1>1 DEF Byte
<1>3. p \in Seq(Byte) /\ Len(p) = n
  <2>1. p \in [1 .. n -> Byte]
    BY <1>2
  <2> HIDE DEF p
  <2>2. p \in Seq(Byte)
    BY <2>1, SeqDef
  <2>3. Len(p) \in Nat /\ 1 .. Len(p) = 1 .. n
    BY <2>1, <2>2, LenProperties
  <2> QED  BY <2>2, <2>3
<1>4. /\ t \in Seq(Byte) /\ Len(t) = Len(s) + n
      /\ \A i \in 1 .. Len(t) : t[i] = IF i <= Len(s) THEN s[i] ELSE p[i - Len(s)]
  <2> HIDE DEF p
  <2>1. /\ s \o p \in Seq(Byte) /\ Len(s \o p) = Len(s) + Len(p)
        /\ \A i \in 1 .. Len(s) + Len(p) :
             (s \o p)[i] = IF i <= Len(s) THEN s[i] ELSE p[i - Len(s)]
    BY <1>3, ConcatProperties, Zenon
  <2> QED  BY <1>3, <2>1
<1>5. ASSUME NEW i \in 1 .. Len(t)
      PROVE  t[i] = [rid |-> 1, off |-> i - 1]
  <2>1. CASE i <= Len(s)
    BY <1>1, <1>4, <2>1
  <2>2. CASE ~(i <= Len(s))
    <3>1. i - Len(s) \in 1 .. n /\ Len(s) + (i - Len(s)) - 1 = i - 1
      BY <1>1, <1>4, <2>2
    <3>2. t[i] = p[i - Len(s)]
      BY <1>4, <2>2
    <3> QED  BY <3>1, <3>2
  <2> QED  BY <2>1, <2>2
<1> QED  BY <1>4, <1>5
=============================================================================
