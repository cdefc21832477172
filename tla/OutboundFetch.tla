---------------------------- MODULE OutboundFetch ----------------------------
(***************************************************************************)
(* One dongle fetches a page from another through the tunnel: TcpClient    *)
(* (core/src/outbound.rs), driven by the outbound part of the data plane,  *)
(* against TcpServer.  The tunnel is UDP: segments may be lost, repeated   *)
(* and reordered.                                                          *)
(*                                                                         *)
(* The request takes one byte.  The client never sends anything of its own *)
(* accord after open(), and does not look at RST.                          *)
(***************************************************************************)
EXTENDS TcpServer, Sequences

CONSTANTS
    ClientIss,          \* the client's initial sequence number
    RcvWindow,          \* the window it always advertises (64240)
    PageLen,            \* the length of the response to its one request
    Paths               \* the paths between the two to consider

\* A path: bounds on repeated and lost segments, and whether it keeps segments
\* in order and on time.
Path == [dups : Nat, losses : Nat, ordered : BOOLEAN]

ASSUME FetchAssumption ==
    /\ ClientIss \in SeqNums /\ RcvWindow \in Windows /\ 1 \in Lens
    /\ Paths \subseteq Path
    /\ Clients # {}                         \* Us, the one client, is in it
    /\ PageLen \in Totals

\* Two values of rand_u32 are further apart than a response is long: otherwise
\* a segment of an earlier connection can pass for one of the present one, and
\* neither end has a way to tell.
ASSUME FetchIssApart ==
    \A i, j \in Iss, t \in Totals : i # j => WSub(i, j) > t + 1

VARIABLES
    tc,         \* OutboundRun.started and the TcpClient
    sent,       \* segments of the client that the network still holds
    path        \* the path, with what is left of its bounds

fetchVars == <<conn, pump, routed, s2c, tc, sent, path>>

Us == CHOOSE c \in Clients : TRUE

\* TcpClient::new; response is the sequence of (response, offset) received.
NewClient ==
    [started |-> FALSE, snd_nxt |-> ClientIss, rcv_nxt |-> 0,
     established |-> FALSE, done |-> FALSE, response |-> <<>>]

FetchInit ==
    /\ Init
    /\ tc = NewClient
    /\ sent = {}
    /\ path \in Paths

\* TcpClient::segment
ClientSeg(t, flags, len) ==
    [client |-> Us, flags |-> flags, seq |-> t.snd_nxt, ack |-> t.rcv_nxt,
     win |-> RcvWindow, len |-> len]

\* run_periodic: "(once) fire an HTTP GET through the tunnel"; TcpClient::open
Start ==
    /\ ~tc.started
    /\ tc' = [tc EXCEPT !.started = TRUE, !.snd_nxt = WAdd(@, 1)]
    /\ sent' = sent \cup {ClientSeg(tc, {"SYN"}, 0)}
    /\ UNCHANGED <<conn, pump, routed, s2c, path>>

-----------------------------------------------------------------------------
(* TcpClient::on_inner *)

IsSynAck(t, m) == {"SYN", "ACK"} \subseteq m.flags /\ ~t.established

\* "SYN-ACK -> ACK, then send the request."
OnSynAck(m) ==
    /\ ~tc.done /\ IsSynAck(tc, m)
    /\ LET t == [tc EXCEPT !.rcv_nxt = WAdd(m.seq, 1), !.established = TRUE]
       IN  /\ sent' = sent \cup {ClientSeg(t, {"ACK"}, 0), ClientSeg(t, {"ACK"}, 1)}
           /\ tc' = [t EXCEPT !.snd_nxt = WAdd(@, 1)]

AcceptAnyPayload(t, m) ==
    IF m.len > 0
    THEN [t EXCEPT !.rcv_nxt = WAdd(m.seq, m.len),
                   !.response = @ \o [i \in 1 .. m.len |->
                                        [rid |-> m.rid, off |-> m.off + i - 1]]]
    ELSE t

\* "Response data: accept in-order"
AcceptPayload(t, m) ==
    IF m.len > 0 /\ m.seq = t.rcv_nxt
    THEN [t EXCEPT !.rcv_nxt = WAdd(@, m.len),
                   !.response = @ \o [i \in 1 .. m.len |->
                                        [rid |-> m.rid, off |-> m.off + i - 1]]]
    ELSE t

\* Payload and FIN; everything else falls through without effect.
OnSegment(m) ==
    /\ ~tc.done /\ ~IsSynAck(tc, m)
    /\ LET t   == AcceptPayload(tc, m)
           u   == [t EXCEPT !.rcv_nxt = WAdd(@, 1)]
           ack == IF m.len > 0 THEN {ClientSeg(t, {"ACK"}, 0)} ELSE {}
       IN  IF "FIN" \in m.flags
           THEN /\ sent' = sent \cup ack \cup {ClientSeg(u, {"ACK"}, 0),
                                             ClientSeg(u, {"FIN", "ACK"}, 0)}
                /\ tc' = [u EXCEPT !.done = TRUE]
           ELSE /\ sent' = sent \cup ack
                /\ tc' = t

OnNothing(m) == tc.done /\ UNCHANGED <<tc, sent>>

OnInner(m) == OnSynAck(m) \/ OnSegment(m) \/ OnNothing(m)

-----------------------------------------------------------------------------
(* The tunnel *)

Carried(net, m, net2, path2) ==
    \/ net2 = net \ {m} /\ path2 = path
    \/ /\ path.dups > 0
       /\ net2 = net
       /\ path2 = [path EXCEPT !.dups = @ - 1]

\* On an ordered path the segment furthest back in the stream comes first.
InTurn(m) == path.ordered => \A x \in s2c : Off(m.seq) <= Off(x.seq)

ToClient ==
    \E m \in s2c :
      /\ InTurn(m)
      /\ OnInner(m)
      /\ Carried(s2c, m, s2c', path')
      /\ UNCHANGED <<conn, pump, routed>>

Earlier(x, m) ==
    \/ WSub(x.seq, ClientIss) < WSub(m.seq, ClientIss)
    \/ /\ x.seq = m.seq
       /\ \/ WSub(x.ack, conn.iss) < WSub(m.ack, conn.iss)
          \/ x.ack = m.ack /\ x.len < m.len
          \/ x.ack = m.ack /\ x.len = m.len /\ "FIN" \notin x.flags /\ "FIN" \in m.flags

ToServer ==
    \E m \in sent :
      /\ path.ordered => ~\E x \in sent : Earlier(x, m)
      /\ Process(m)
      /\ conn'.resp = NoResp \/ conn'.resp.total = PageLen
      /\ Carried(sent, m, sent', path')
      /\ UNCHANGED tc

Drop ==
    /\ path.losses > 0
    /\ path' = [path EXCEPT !.losses = @ - 1]
    /\ \/ \E m \in sent : sent' = sent \ {m} /\ UNCHANGED s2c
       \/ \E m \in s2c : s2c' = s2c \ {m} /\ UNCHANGED sent
    /\ UNCHANGED <<conn, pump, routed, tc>>

ServerRuns ==
    /\ \/ PumpSegment \/ PumpDone \/ Tick
       \/ (path.ordered => sent = {} /\ s2c = {}) /\ Elapse
    /\ UNCHANGED <<tc, sent, path>>

FetchNext == Start \/ ToClient \/ ToServer \/ Drop \/ ServerRuns

FetchSpec == FetchInit /\ [][FetchNext]_fetchVars

FetchFairSpec ==
    /\ FetchSpec
    /\ WF_fetchVars(Start) /\ WF_fetchVars(ToClient) /\ WF_fetchVars(ToServer)
    /\ WF_fetchVars(ServerRuns)

-----------------------------------------------------------------------------
(* Properties *)

\* Whatever is lost, repeated or reordered, what the client has collected is a
\* prefix of one response: no byte twice, none skipped.
ResponseIsPrefix ==
    \A i \in 1 .. Len(tc.response) : tc.response[i] = [rid |-> 1, off |-> i - 1]

\* On a path that keeps the order, loses and repeats nothing the fetch ends,
\* with the whole response.
FetchCompletes ==
    path = [dups |-> 0, losses |-> 0, ordered |-> TRUE] =>
      (tc.started ~> tc.done /\ Len(tc.response) = PageLen)
=============================================================================
