------------------------------ MODULE TcpServer ------------------------------
(***************************************************************************)
(* The HTTP server inside the tunnel (core/src/tcp.rs, TcpServer): one     *)
(* connection at a time, a response streamed under an ACK-driven window,   *)
(* go-back-N retransmission from tick, and a lifetime watchdog.            *)
(*                                                                         *)
(* conn is the struct Conn.  Two of its fields, last_send_ms and           *)
(* opened_ms, are only ever used as `now_ms - field'; the model keeps that *)
(* difference (sendAge, openAge), which Elapse advances and caps where the *)
(* code can no longer tell larger values apart.                            *)
(*                                                                         *)
(* The response body is data: a response is its number rid (the rid-th     *)
(* call of build_response on this connection) and its length total, and a  *)
(* segment carries the bytes off .. off+len-1 of response rid.             *)
(*                                                                         *)
(* pump() is a loop that hands one segment at a time to `send'.  It is     *)
(* modelled segment by segment: `pump' says whether the handler is still   *)
(* inside the loop, and until it has left it no other server action is     *)
(* enabled.  The network and the client do run meanwhile, as they do.      *)
(***************************************************************************)
EXTENDS SeqNum, FiniteSets

CONSTANTS
    Clients,            \* (address, port) pairs a segment can come from
    NoClient,           \* the default address, nobody's
    Iss,                \* values rand_u32 may return for a new connection
    Windows,            \* receive windows a client may advertise
    Totals,             \* values of RespState.total_len
    Lens,               \* payload lengths of a client's segments
    MSS, CWND,
    RTO_BASE_MS, RTO_MAX_MS, MAX_CONN_MS, MAX_RTO_ATTEMPTS,
    MaxRouted           \* bound: calls of build_response per connection

ASSUME TcpAssumption ==
    /\ NoClient \notin Clients
    /\ Iss \subseteq SeqNums
    /\ Windows \subseteq Nat
    /\ Totals \subseteq Nat \ {0}
    /\ \A t \in Totals : t + 2 < SeqHalf
    /\ Lens \subseteq SeqNums /\ 0 \in Lens
    /\ MSS \in Nat \ {0} /\ CWND \in Nat \ {0} /\ SeqHalf > 2
    /\ RTO_BASE_MS \in Nat \ {0} /\ RTO_MAX_MS \in Nat
    /\ RTO_BASE_MS <= RTO_MAX_MS
    /\ MAX_CONN_MS \in Nat /\ MAX_RTO_ATTEMPTS \in Nat /\ MaxRouted \in Nat

Flags == {"SYN", "ACK", "FIN", "RST"}

\* A segment from a client to port 80, after the header checks of process().
ClientSegment ==
    [client : Clients, flags : SUBSET Flags, seq : SeqNums, ack : SeqNums,
     win : Windows, len : Lens]

\* A segment from the server (fn segment); rid is 0 when there is no payload.
ServerSegment ==
    [client : Clients, flags : SUBSET Flags, seq : SeqNums, ack : SeqNums,
     rid : Nat, off : Nat, len : Nat]

NoResp == [rid |-> 0, total |-> 0, fin_sent |-> FALSE]

\* Conn::default()
NoConn ==
    [active |-> FALSE, client |-> NoClient, rcv_nxt |-> 0, iss |-> 0,
     snd_una |-> 0, snd_nxt |-> 0, peer_win |-> 0, rto_ms |-> 0,
     rto_attempts |-> 0, sendAge |-> RTO_MAX_MS, openAge |-> 0,
     resp |-> NoResp]

VARIABLES
    conn,       \* TcpServer.conn
    pump,       \* "no", or inside pump(): "window" from process, "probe" from tick
    routed,     \* calls of build_response on this connection
    s2c         \* segments the server has sent and the network still holds

tcpVars == <<conn, pump, routed, s2c>>

-----------------------------------------------------------------------------
(* fn send_window, acked_bytes, sent_bytes *)

\* Faulty variants, each a slip this code could contain, stand before the
\* definition they alter.  They show that a property can fail.
SendWindowNoCwnd(c) == c.peer_win

SendWindow(c) == MinOf(c.peer_win, CWND)

StreamBytesCountsSyn(c, seq) ==
    Clamp(AsSigned(WSub(seq, c.iss)), 0, c.resp.total)

StreamBytes(c, seq) ==
    Clamp(AsSigned(WSub(WSub(seq, c.iss), 1)), 0, c.resp.total)

AckedBytes(c) == StreamBytes(c, c.snd_una)

SentBytes(c) == StreamBytes(c, c.snd_nxt)

(* fn segment: addressed from the connection's current state *)
Segment(c, flags, rid, off, len) ==
    [client |-> c.client, flags |-> flags, seq |-> c.snd_nxt,
     ack |-> c.rcv_nxt, rid |-> rid, off |-> off, len |-> len]

Control(c, flags) == Segment(c, flags, 0, 0, 0)

Send(S) == s2c' = s2c \cup S

-----------------------------------------------------------------------------
(* fn process, one action per branch.  The handler runs on one thread, so  *)
(* a segment is only looked at when the previous handler has returned.     *)

FromPeer(m) == conn.active /\ m.client = conn.client

\* "New connection: SYN."  Any SYN takes over the one connection there is.
RecvSyn(m) ==
    /\ pump = "no"
    /\ "SYN" \in m.flags
    /\ \E iss \in Iss :
         LET c == [NoConn EXCEPT !.active = TRUE, !.client = m.client,
                                 !.rcv_nxt = WAdd(m.seq, 1),
                                 !.iss = iss, !.snd_una = iss, !.snd_nxt = iss,
                                 !.peer_win = m.win, !.rto_ms = RTO_BASE_MS]
         IN  /\ Send({Control(c, {"SYN", "ACK"})})
             /\ conn' = [c EXCEPT !.snd_nxt = WAdd(iss, 1)]
    /\ routed' = 0
    /\ UNCHANGED pump

\* "Anything else must match the active connection."
RecvIgnored(m) ==
    /\ pump = "no"
    /\ "SYN" \notin m.flags
    /\ ~FromPeer(m)
    /\ UNCHANGED tcpVars

RecvRst(m) ==
    /\ pump = "no"
    /\ "SYN" \notin m.flags /\ FromPeer(m)
    /\ "RST" \in m.flags
    /\ conn' = NoConn
    /\ routed' = 0
    /\ UNCHANGED <<pump, s2c>>

InRangeNoUpperEnd(c, ack) == SeqLt(c.snd_una, ack)

\* "new, in-range ACK"
InRange(c, ack) == SeqLt(c.snd_una, ack) /\ ~SeqLt(c.snd_nxt, ack)

\* "Fully acked (incl. FIN)"
FullyAcked(c, ack) == c.resp.fin_sent /\ ack = c.snd_nxt

\* "Process the ACK field": the connection after it.
AckField(c, m) ==
    IF "ACK" \notin m.flags THEN c
    ELSE IF ~InRange(c, m.ack) THEN [c EXCEPT !.peer_win = m.win]
    ELSE [c EXCEPT !.peer_win = m.win, !.snd_una = m.ack,
                   !.rto_ms = RTO_BASE_MS, !.rto_attempts = 0,
                   !.resp = IF FullyAcked(c, m.ack)
                            THEN NoResp ELSE c.resp]

Accepted(m) ==
    /\ pump = "no"
    /\ FromPeer(m)
    /\ "SYN" \notin m.flags /\ "RST" \notin m.flags

\* "Data carrying the HTTP request": build_response if none is staged, then
\* pump.  A FIN flag on a segment with payload is not looked at.
RecvData(m) ==
    /\ Accepted(m)
    /\ m.len > 0
    /\ LET c == [AckField(conn, m) EXCEPT !.rcv_nxt = WAdd(m.seq, m.len)]
       IN  IF c.resp = NoResp
           THEN /\ routed < MaxRouted
                /\ routed' = routed + 1
                /\ \E total \in Totals :
                     conn' = [c EXCEPT !.resp = [rid |-> routed + 1,
                                                 total |-> total,
                                                 fin_sent |-> FALSE]]
           ELSE /\ conn' = c
                /\ UNCHANGED routed
    /\ pump' = "window"
    /\ UNCHANGED s2c

\* "Pure FIN from the client: ack it and close."
RecvFin(m) ==
    /\ Accepted(m)
    /\ m.len = 0
    /\ "FIN" \in m.flags
    /\ Send({Control([AckField(conn, m) EXCEPT !.rcv_nxt = WAdd(m.seq, 1)],
                     {"ACK"})})
    /\ conn' = NoConn
    /\ routed' = 0
    /\ UNCHANGED pump

\* "Bare ACK: a window may have opened - send more."
RecvAck(m) ==
    /\ Accepted(m)
    /\ m.len = 0
    /\ "FIN" \notin m.flags
    /\ conn' = AckField(conn, m)
    /\ pump' = "window"
    /\ UNCHANGED <<routed, s2c>>

Process(m) ==
    \/ RecvSyn(m) \/ RecvIgnored(m) \/ RecvRst(m)
    \/ RecvData(m) \/ RecvFin(m) \/ RecvAck(m)

-----------------------------------------------------------------------------
(* fn pump: one iteration of its loop, and leaving it *)

PumpWindow ==
    IF pump = "probe" THEN MaxOf(SendWindow(conn), 1) ELSE SendWindow(conn)

EdgePastEnd == AckedBytes(conn) + PumpWindow

Edge == MinOf(AckedBytes(conn) + PumpWindow, conn.resp.total)

IsLastOfWindow(next, n) == next + n >= Edge

IsLast(next, n) == next + n >= conn.resp.total

PumpSegment ==
    /\ pump # "no"
    /\ conn.resp # NoResp
    /\ SentBytes(conn) < Edge
    /\ LET next == SentBytes(conn)
           n    == MinOf(Edge - next, MSS)
           last == IsLast(next, n)
           f    == IF last THEN {"ACK", "FIN"} ELSE {"ACK"}
       IN  /\ Send({Segment(conn, f, conn.resp.rid, next, n)})
           /\ conn' = [conn EXCEPT
                         !.snd_nxt = WAdd(@, IF last THEN n + 1 ELSE n),
                         !.sendAge = 0,
                         !.resp.fin_sent = @ \/ last]
           /\ pump' = IF last THEN "no" ELSE pump
    /\ UNCHANGED routed

PumpDone ==
    /\ pump # "no"
    /\ conn.resp = NoResp \/ SentBytes(conn) >= Edge
    /\ pump' = "no"
    /\ UNCHANGED <<conn, routed, s2c>>

\* read_response has nothing: the headers are in memory, but a read of the body
\* may fail (FlashReader, all or nothing), and then the loop ends too.  The
\* segment that holds the end of the headers, which such a read cuts short
\* behind them, is not told apart from a whole one.
PumpFails ==
    /\ pump # "no"
    /\ conn.resp # NoResp
    /\ SentBytes(conn) < Edge /\ SentBytes(conn) > 0
    /\ pump' = "no"
    /\ UNCHANGED <<conn, routed, s2c>>

-----------------------------------------------------------------------------
(* fn tick: the cases in which it does something *)

Expired == conn.openAge > MAX_CONN_MS

Outstanding == conn.resp # NoResp /\ conn.snd_una # conn.snd_nxt

\* fn reset_with_rst
ResetWithRst ==
    /\ Send({Control(conn, {"RST"})})
    /\ conn' = NoConn
    /\ routed' = 0
    /\ UNCHANGED pump

TickWatchdogOutstanding ==
    /\ pump = "no" /\ conn.active
    /\ Expired /\ Outstanding
    /\ ResetWithRst

TickWatchdog ==
    /\ pump = "no" /\ conn.active
    /\ Expired
    /\ ResetWithRst

RtoFired ==
    /\ pump = "no" /\ conn.active
    /\ ~Expired
    /\ Outstanding
    /\ conn.sendAge >= conn.rto_ms

TickGiveUp ==
    /\ RtoFired
    /\ conn.rto_attempts + 1 > MAX_RTO_ATTEMPTS
    /\ ResetWithRst

TickRetransmitKeepsFin ==
    /\ RtoFired
    /\ conn.rto_attempts + 1 <= MAX_RTO_ATTEMPTS
    /\ conn' = [conn EXCEPT !.rto_attempts = @ + 1,
                            !.rto_ms = MinOf(2 * @, RTO_MAX_MS),
                            !.snd_nxt = conn.snd_una]
    /\ pump' = "probe"
    /\ UNCHANGED <<routed, s2c>>

TickRetransmitNoRewind ==
    /\ RtoFired
    /\ conn.rto_attempts + 1 <= MAX_RTO_ATTEMPTS
    /\ conn' = [conn EXCEPT !.rto_attempts = @ + 1,
                            !.rto_ms = MinOf(2 * @, RTO_MAX_MS)]
    /\ pump' = "probe"
    /\ UNCHANGED <<routed, s2c>>

TickRetransmitUncapped ==
    /\ RtoFired
    /\ conn.rto_attempts + 1 <= MAX_RTO_ATTEMPTS
    /\ conn' = [conn EXCEPT !.rto_attempts = @ + 1,
                            !.rto_ms = 2 * @,
                            !.snd_nxt = conn.snd_una,
                            !.resp.fin_sent = FALSE]
    /\ pump' = "probe"
    /\ UNCHANGED <<routed, s2c>>

TickRetransmit ==
    /\ RtoFired
    /\ conn.rto_attempts + 1 <= MAX_RTO_ATTEMPTS
    /\ conn' = [conn EXCEPT !.rto_attempts = @ + 1,
                            !.rto_ms = MinOf(2 * @, RTO_MAX_MS),
                            !.snd_nxt = conn.snd_una,
                            !.resp.fin_sent = FALSE]
    /\ pump' = "probe"
    /\ UNCHANGED <<routed, s2c>>

Tick == TickWatchdog \/ TickGiveUp \/ TickRetransmit

\* now_ms advances between two handlers.
Elapse ==
    /\ pump = "no" /\ conn.active
    /\ conn' = [conn EXCEPT !.sendAge = MinOf(@ + 1, RTO_MAX_MS),
                            !.openAge = MinOf(@ + 1, MAX_CONN_MS + 1)]
    /\ UNCHANGED <<pump, routed, s2c>>

-----------------------------------------------------------------------------
(* The server alone, in an environment that may send it any segment and    *)
(* lose any segment of its own.                                            *)

Init ==
    /\ conn = NoConn
    /\ pump = "no"
    /\ routed = 0
    /\ s2c = {}

ServerStep == PumpSegment \/ PumpDone \/ PumpFails \/ Tick \/ Elapse

NetworkDrops == \E S \in SUBSET s2c : s2c' = S /\ UNCHANGED <<conn, pump, routed>>

Next ==
    \/ \E m \in ClientSegment : Process(m)
    \/ ServerStep
    \/ NetworkDrops

Spec == Init /\ [][Next]_tcpVars

-----------------------------------------------------------------------------
(* Properties of the server in any environment *)

Conn ==
    [active : BOOLEAN, client : Clients \cup {NoClient}, rcv_nxt : SeqNums,
     iss : SeqNums, snd_una : SeqNums, snd_nxt : SeqNums, peer_win : Nat,
     rto_ms : 0 .. RTO_MAX_MS, rto_attempts : 0 .. MAX_RTO_ATTEMPTS,
     sendAge : 0 .. RTO_MAX_MS, openAge : 0 .. MAX_CONN_MS + 1,
     resp : [rid : Nat, total : Nat, fin_sent : BOOLEAN]]

\* Types of the server's state (struct Conn, struct RespState).
TypeOK ==
    /\ conn \in Conn
    /\ pump \in {"no", "window", "probe"}
    /\ routed \in 0 .. MaxRouted
    /\ s2c \subseteq ServerSegment

\* Distance of a sequence number from the connection's own SYN.
Off(seq) == WSub(seq, conn.iss)

\* "oldest unacked seq" never runs ahead of "next sequence number we will
\* send", whatever ACK numbers arrive and however often tick rewinds, also
\* when the sequence numbers wrap.
SendOrder == conn.active => Off(conn.snd_una) <= Off(conn.snd_nxt)

\* CWND: "how many bytes may be outstanding (unacked) at once"; the SYN and
\* the FIN take one sequence number each on top of it.
CwndBound == conn.active => WSub(conn.snd_nxt, conn.snd_una) <= CWND + 2

\* The strengthening that makes SendOrder and CwndBound inductive: only an
\* active connection has a response or is being pumped, a response has one of
\* the lengths build_response can produce, and the sequence numbers in use
\* stay on the near half of the ring, where serial comparison is exact.
SendInv ==
    /\ conn.active => conn.client \in Clients
    /\ conn.resp # NoResp => conn.active /\ conn.resp.total \in Totals
    /\ pump # "no" => conn.active
    /\ conn.active => /\ Off(conn.snd_una) <= Off(conn.snd_nxt)
                      /\ Off(conn.snd_nxt) < SeqHalf
                      /\ Off(conn.snd_nxt) - Off(conn.snd_una) <= CWND + 2

\* What pump() puts on the wire in a step: at most MSS bytes, inside the
\* response, at the sequence number of their offset (or, when a rewind reached
\* back to an unacknowledged SYN, at the SYN's own), and inside the window
\* granted beyond snd_una (one byte when tick probes a closed window).
Emission(m) ==
    /\ m.len <= MSS
    /\ m.rid = conn.resp.rid /\ m.off + m.len <= conn.resp.total
    /\ m.seq = WAdd(conn.iss, m.off + 1) \/ (m.seq = conn.iss /\ m.off = 0)
    /\ m.off + m.len <= AckedBytes(conn) + MaxOf(MinOf(conn.peer_win, CWND), 1)

EmissionOK == [][\A m \in s2c' \ s2c : m.len > 0 => Emission(m)]_tcpVars
=============================================================================
