------------------------------- MODULE Proxy --------------------------------
(***************************************************************************)
(* The firmware with feature tcp-proxy: one TcpProxy (src/proxy.rs) for    *)
(* the packets of all tunnels, called from the loop of the data plane,     *)
(* which waits for the host on the LAN.                                    *)
(*                                                                         *)
(* A request has one or two segments, a response is a sequence of bytes.   *)
(* A sequence number of the proxy is the SYN it goes back to and an        *)
(* offset: the initial numbers are random.  Users and the LAN host are     *)
(* external.  A user takes every segment in turn: the proxy does not look  *)
(* at windows, and what it sends beyond one is not modelled.               *)
(***************************************************************************)
EXTENDS Naturals, Sequences, SequencesExt, FiniteSets, FiniteSetsExt

CONSTANTS
    Users,
    PROXY_MSS, FETCH_CAP,   \* MSS and 64 * 1024
    ProxyCases              \* the circumstances to consider

\* Who uses the proxy; the segments of a request; whether the LAN host accepts
\* connections and whether packets change their order; how many datagrams of a
\* burst the UDP send buffer has room for in any case; bounds on packets lost,
\* repeated and sent again and on connections a user gives up.
ProxyCase ==
    [users : SUBSET Users, parts : Nat, accepts : BOOLEAN, reorders : BOOLEAN,
     room : Nat \ {0}, losses : Nat, repeats : Nat, resends : Nat, aborts : Nat]

ASSUME ProxyAssumption ==
    /\ {PROXY_MSS, FETCH_CAP} \subseteq Nat \ {0} /\ ProxyCases \subseteq ProxyCase

VARIABLES
    pcase,      \* the circumstances, with what is left of the bounds
    px,         \* Conn; user is the address of the client
    syns,       \* connections so far (history)
    lan,        \* lan_fetch: at, bytes received, number of the fetch
    asked,      \* the fetches, and the connection each was for (history)
    user,       \* users: their connection
    pup, pdown  \* packets under way from and to each user

proxyVars == <<pcase, px, syns, lan, asked, user, pup, pdown>>

NoFetch == [at |-> "idle", len |-> 0]
NoUser == [st |-> "closed", port |-> 0, conn |-> 0, rcv |-> 0, acked |-> 0, got |-> <<>>]
\* Conn::default()
NoPx == [active |-> FALSE]

ProxyStart(c) ==
    /\ pcase = c /\ px = NoPx /\ syns = 0 /\ lan = NoFetch /\ asked = <<>>
    /\ user = [u \in Users |-> NoUser]
    /\ pup = [u \in Users |-> <<>>] /\ pdown = pup

ProxyInit == \E c \in ProxyCases : ProxyStart(c)

-----------------------------------------------------------------------------
\* TcpProxy::handle for the next packet of u.  Nothing is handled during a
\* fetch.

\* TcpProxy::segment, with the connection c.
ProxySegment(c, flags, bytes) ==
    [port |-> c.port, conn |-> c.conn, seq |-> c.snd, ack |-> c.rcv, flags |-> flags, bytes |-> bytes]

Mine(u, m) == px.active /\ px.user = u /\ px.port = m.port

\* The initial sequence number is a new random one.
SameNumbers(u, m) == IF Mine(u, m) THEN px.conn ELSE syns + 1
FreshNumbers(u, m) == syns + 1

OnSyn(u, m) ==
    /\ "syn" \in m.flags
    /\ LET c == [active |-> TRUE, user |-> u, port |-> m.port, rcv |-> m.seq + 1,
                 conn |-> FreshNumbers(u, m), snd |-> 0, fetched |-> FALSE]
       IN /\ px' = [c EXCEPT !.snd = @ + 1]
          /\ pdown' = [pdown EXCEPT ![u] = Append(@, ProxySegment(c, {"syn", "ack"}, <<>>))]
    /\ syns' = syns + 1
    /\ UNCHANGED <<lan, asked>>

OnReset(u, m) ==
    /\ "syn" \notin m.flags /\ Mine(u, m) /\ "rst" \in m.flags
    /\ px' = NoPx /\ UNCHANGED <<syns, lan, asked, pdown>>

FirstPayload(m) == m.len > 0 /\ ~px.fetched

\* "The client's request data": any segment of it.  Its ACK is returned with
\* the response.
OnRequest(u, m) ==
    /\ m.flags \cap {"syn", "rst"} = {} /\ Mine(u, m) /\ FirstPayload(m)
    /\ px' = [px EXCEPT !.rcv = m.seq + m.len, !.fetched = TRUE]
    /\ lan' = [at |-> "connect", len |-> 0]
    /\ asked' = Append(asked, [conn |-> px.conn, user |-> u, port |-> px.port, len |-> 0])
    /\ UNCHANGED <<syns, pdown>>

OnFin(u, m) ==
    /\ m.flags \cap {"syn", "rst"} = {} /\ Mine(u, m) /\ ~FirstPayload(m) /\ "fin" \in m.flags
    /\ pdown' = [pdown EXCEPT ![u] =
                    Append(@, ProxySegment([px EXCEPT !.rcv = m.seq + 1], {"ack"}, <<>>))]
    /\ px' = NoPx /\ UNCHANGED <<syns, lan, asked>>

\* Other handlers see the packet.
NotForUs(u, m) ==
    /\ "syn" \notin m.flags
    /\ Mine(u, m) => ~FirstPayload(m) /\ m.flags \cap {"rst", "fin"} = {}
    /\ UNCHANGED <<px, syns, lan, asked, pdown>>

Handle(u) ==
    /\ lan = NoFetch
    /\ \E i \in 1 .. Min({Len(pup[u]), IF pcase.reorders THEN Len(pup[u]) ELSE 1}) :
          /\ LET m == pup[u][i]
             IN OnSyn(u, m) \/ OnReset(u, m) \/ OnRequest(u, m) \/ OnFin(u, m) \/ NotForUs(u, m)
          /\ pup' = [pup EXCEPT ![u] = RemoveAt(@, i)]
    /\ UNCHANGED <<pcase, user>>

-----------------------------------------------------------------------------
\* lan_fetch, and the response that goes to the tunnel the request came from.

\* The response in segments, the last one with FIN; without a response FIN
\* alone.
EmptyResponse(c, resp) == <<ProxySegment(c, {"fin", "ack"}, <<>>)>>
ResponseSegments(c, resp) ==
    IF resp = <<>> THEN EmptyResponse(c, resp)
    ELSE [k \in 1 .. (Len(resp) + PROXY_MSS - 1) \div PROXY_MSS |->
            LET i == (k - 1) * PROXY_MSS
                end == Min({i + PROXY_MSS, Len(resp)})
            IN ProxySegment([c EXCEPT !.snd = @ + i],
                            IF end = Len(resp) THEN {"psh", "ack", "fin"} ELSE {"psh", "ack"},
                            SubSeq(resp, i + 1, end))]

Replies(resp) == <<ProxySegment(px, {"ack"}, <<>>)>> \o ResponseSegments(px, resp)

\* What may be left of a burst: `let _ = sock.send_to' goes on after an error,
\* and any send may fail once the buffer has had its fill.
Increasing(n, m) ==
    {pick \in [1 .. n -> 1 .. m] : \A i, j \in 1 .. n : i < j => pick[i] < pick[j]}
Kept(burst) ==
    LET m == Len(burst)
        sure == Min({pcase.room, m})
        Picks(n) == {pick \in Increasing(n, m) : \A i \in 1 .. sure : pick[i] = i}
    IN UNION {{[i \in 1 .. n |-> burst[pick[i]]] : pick \in Picks(n)} :
              n \in {k \in 0 .. m : k >= sure}}

Return(len) ==
    LET f == Len(asked)
        burst == Replies([i \in 1 .. len |-> [fetch |-> f, byte |-> i]])
    IN /\ lan' = NoFetch /\ asked' = [asked EXCEPT ![f].len = len]
       /\ px' = [px EXCEPT !.snd = @ + len + 1]
       /\ \E kept \in Kept(burst) :
             pdown' = [pdown EXCEPT ![px.user] = @ \o kept]

LanConnect ==
    /\ lan.at = "connect"
    /\ \/ pcase.accepts /\ lan' = [lan EXCEPT !.at = "read"] /\ UNCHANGED <<px, asked, pdown>>
       \/ ~pcase.accepts /\ Return(0)      \* refused, or after 3 s
    /\ UNCHANGED <<pcase, syns, user, pup>>

\* "cap so one fetch can't blow the heap"
NoCap(len) == FALSE
Capped(len) == len > FETCH_CAP

\* A read: data, or the end, an error or 3 s without data.  (Beyond the cap,
\* where no fetch goes on, the length would not be counted further.)
LanRead ==
    /\ lan.at = "read"
    /\ \/ LET len == IF lan.len > FETCH_CAP THEN FETCH_CAP ELSE lan.len + 1
          IN IF Capped(len) THEN Return(len)
             ELSE lan' = [lan EXCEPT !.len = len] /\ UNCHANGED <<px, asked, pdown>>
       \/ Return(lan.len)
    /\ UNCHANGED <<pcase, syns, user, pup>>

-----------------------------------------------------------------------------
\* The users and the network.

UserSegment(u, flags, seq, len) ==
    [port |-> user[u].port, flags |-> flags, seq |-> seq, len |-> len]
Requests(u) == [k \in 1 .. pcase.parts |-> UserSegment(u, {"ack"}, k, 1)]
Spend(what) == pcase[what] > 0 /\ pcase' = [pcase EXCEPT ![what] = @ - 1]

Open(u) ==
    /\ u \in pcase.users /\ user[u].st = "closed"
    /\ user' = [user EXCEPT ![u] = [NoUser EXCEPT !.st = "syn", !.port = user[u].port + 1]]
    /\ pup' = [pup EXCEPT ![u] = Append(@, [port |-> user[u].port + 1, flags |-> {"syn"}, seq |-> 0, len |-> 0])]
    /\ UNCHANGED <<pcase, px, syns, lan, asked, pdown>>

UserResend(u) ==
    /\ Spend("resends")
    /\ \/ user[u].st = "syn" /\ pup' = [pup EXCEPT ![u] = Append(@, UserSegment(u, {"syn"}, 0, 0))]
       \/ /\ user[u].st = "est" /\ user[u].acked <= pcase.parts
          /\ pup' = [pup EXCEPT ![u] = Append(@, UserSegment(u, {"ack"}, user[u].acked, 1))]
    /\ UNCHANGED <<px, syns, lan, asked, user, pdown>>

UserAbort(u) ==
    /\ user[u].st \in {"syn", "est"} /\ Spend("aborts")
    /\ user' = [user EXCEPT ![u].st = "closed"]
    /\ pup' = [pup EXCEPT ![u] = Append(@, UserSegment(u, {"rst"}, 1, 0))]
    /\ UNCHANGED <<px, syns, lan, asked, pdown>>

UserReceive(u) ==
    /\ pdown[u] # <<>>
    /\ pdown' = [pdown EXCEPT ![u] = Tail(@)]
    /\ LET m == Head(pdown[u])
           c == user[u]
           acked == Max({c.acked, m.ack})
       IN \/ /\ c.st = "syn" /\ m.port = c.port /\ "syn" \in m.flags
             /\ user' = [user EXCEPT ![u] = [c EXCEPT !.st = "est", !.conn = m.conn, !.rcv = m.seq + 1, !.acked = m.ack]]
             /\ pup' = [pup EXCEPT ![u] = @ \o Requests(u)]
          \/ /\ c.st = "est" /\ m.port = c.port /\ m.conn = c.conn
             /\ IF m.seq # c.rcv \/ m.flags = {"ack"}
                THEN user' = [user EXCEPT ![u].acked = acked] /\ UNCHANGED pup
                ELSE /\ user' = [user EXCEPT ![u] =
                                   [c EXCEPT !.acked = acked, !.got = @ \o m.bytes, !.rcv = @ + Len(m.bytes),
                                             !.st = IF "fin" \in m.flags THEN "done" ELSE @]]
                     /\ pup' = IF "fin" \in m.flags
                               THEN [pup EXCEPT ![u] = Append(@, UserSegment(u, {"fin", "ack"}, pcase.parts + 1, 0))]
                               ELSE pup
          \/ /\ \/ c.st \notin {"syn", "est"} \/ m.port # c.port
                \/ c.st = "syn" /\ "syn" \notin m.flags
                \/ c.st = "est" /\ m.conn # c.conn
             /\ UNCHANGED <<user, pup>>
    /\ UNCHANGED <<pcase, px, syns, lan, asked>>

LosePacket(u) ==
    /\ Spend("losses")
    /\ \/ pup[u] # <<>> /\ pup' = [pup EXCEPT ![u] = Tail(@)] /\ UNCHANGED pdown
       \/ pdown[u] # <<>> /\ pdown' = [pdown EXCEPT ![u] = Tail(@)] /\ UNCHANGED pup
    /\ UNCHANGED <<px, syns, lan, asked, user>>

RepeatPacket(u) ==
    /\ Spend("repeats")
    /\ \E m \in ToSet(pup[u]) : pup' = [pup EXCEPT ![u] = Append(@, m)]
    /\ UNCHANGED <<px, syns, lan, asked, user, pdown>>

-----------------------------------------------------------------------------
ProxyNext ==
    \/ LanConnect \/ LanRead
    \/ \E u \in Users : \/ Handle(u) \/ Open(u) \/ UserResend(u) \/ UserAbort(u)
                        \/ UserReceive(u) \/ LosePacket(u) \/ RepeatPacket(u)

ProxySpec == ProxyInit /\ [][ProxyNext]_proxyVars

\* The data plane and the timeouts of the fetch run; users open and receive.
ProxyFairness ==
    /\ WF_proxyVars(LanConnect) /\ WF_proxyVars(LanRead)
    /\ \A u \in Users :
          WF_proxyVars(Handle(u)) /\ WF_proxyVars(Open(u)) /\ WF_proxyVars(UserReceive(u))

-----------------------------------------------------------------------------
\* What a user has received is, from its first byte on, the response of one
\* fetch that was made for this very connection: whatever is repeated, no
\* mixture of two responses, and nothing of another user.  "request/response
\* (one-shot)": a connection forwards one request to the LAN.
AnswersOwner ==
    /\ \A u \in Users : user[u].got # <<>> =>
         LET f == user[u].got[1].fetch
         IN /\ user[u].got = [i \in DOMAIN user[u].got |-> [fetch |-> f, byte |-> i]]
            /\ asked[f].user = u /\ asked[f].port = user[u].port
    /\ \A i, j \in DOMAIN asked : asked[i].conn = asked[j].conn => i = j

\* The fetch ends, so the data plane serves its tunnels again, even if the LAN
\* host never stops sending.
LoopResumes == (lan # NoFetch) ~> (lan = NoFetch)

\* A user alone on a path without faults.
Alone ==
    /\ Cardinality(pcase.users) = 1
    /\ pcase.losses + pcase.repeats + pcase.resends + pcase.aborts = 0 /\ ~pcase.reorders

Served(u) == user[u].st = "done" /\ Len(user[u].got) = Last(asked).len

\* The ACK of the request, and the response or a bare FIN.
BurstOf(len) == 1 + Max({1, (len + PROXY_MSS - 1) \div PROXY_MSS})

BurstFits == asked # <<>> => BurstOf(Last(asked).len) <= pcase.room

\* The loop of the data plane goes on, and a user that is alone gets the whole
\* response, or the end of the stream where there is none, if the send buffer
\* has room for the burst.
ProxyServes ==
    /\ LoopResumes
    /\ \A u \in Users :
         Alone => ((user[u].st = "syn") ~>
                     (Served(u) \/ ~BurstFits))

\* "streams the response back" (proxy.rs): all of it, whatever its length.
StreamsBack ==
    \A u \in Users : Alone => ((user[u].st = "syn") ~> Served(u))
=============================================================================
