----------------------------- MODULE TcpTransfer -----------------------------
(***************************************************************************)
(* TcpServer serving conforming TCP clients (a browser, curl: code that is *)
(* not in this repository) over the tunnel, which may lose, duplicate and  *)
(* reorder segments.  A client opens a connection, sends one request that  *)
(* fits one segment (what the RouteFn comment asks for), takes the stream  *)
(* in order into a bounded receive buffer that its application             *)
(* drains, and answers the server's FIN with its own.                      *)
(*                                                                         *)
(* A client numbers its SYN 0, its request byte 1 and its FIN 2.           *)
(***************************************************************************)
EXTENDS TcpServer, Sequences

CONSTANT Envs       \* the environments to consider

\* An environment: which clients come, how many bytes their receive buffers
\* hold, the length of the page they ask for, how often a client retransmits
\* (SYN, request or FIN) or aborts with a RST, how many segments the network
\* delivers twice or loses, how many reads of the body fail (all bounds), and
\* whether network, loop and application are fast for the timers.
Environment ==
    [users : SUBSET Clients, buffer : Nat \ {0}, length : Totals,
     resends : Nat, aborts : Nat, dups : Nat, losses : Nat, badReads : Nat,
     timely : BOOLEAN]

ASSUME TransferAssumption ==
    /\ Envs \subseteq Environment
    /\ \A e \in Envs : 0 .. e.buffer \subseteq Windows
    /\ {0, 1, 2, 3} \subseteq SeqNums /\ 1 \in Lens

\* Two values of rand_u32 are further apart than a connection is long, SYN and
\* FIN included: neither end could tell the connections apart otherwise.
ASSUME IssApart ==
    \A i, j \in Iss, t \in Totals : i # j => WSub(i, j) > t + 2

VARIABLES
    cl,         \* per client: its side of the connection
    c2s,        \* segments the clients have sent and the network still holds
    env         \* the environment, with what is left of its bounds

vars == <<conn, pump, routed, s2c, cl, c2s, env>>

TransferInit ==
    /\ Init
    /\ cl = [c \in Clients |-> [state |-> "closed", rcv_nxt |-> 0,
                                unread |-> 0, stream |-> <<>>]]
    /\ c2s = {}
    /\ env \in Envs

-----------------------------------------------------------------------------
(* The client *)

FromClient(c, flags, seq, k, len) ==
    [client |-> c, flags |-> flags, seq |-> seq, ack |-> k.rcv_nxt,
     win |-> env.buffer - k.unread, len |-> len]

SynOf(c) == FromClient(c, {"SYN"}, 0, cl[c], 0)

RequestOf(c, k) == FromClient(c, {"ACK"}, 1, k, 1)

AckOf(c, k) == FromClient(c, {"ACK"}, 2, k, 0)

FinOf(c, k) == FromClient(c, {"ACK", "FIN"}, 2, k, 0)

ClientSends(S) == c2s' = c2s \cup S

ServerUnchanged == UNCHANGED <<conn, pump, routed>>

Open(c) ==
    /\ c \in env.users
    /\ cl[c].state = "closed"
    /\ cl' = [cl EXCEPT ![c].state = "syn_sent"]
    /\ ClientSends({SynOf(c)})
    /\ ServerUnchanged /\ UNCHANGED <<s2c, env>>

\* The retransmission timer of the client's TCP.
Resend(c) ==
    /\ env.resends > 0
    /\ env' = [env EXCEPT !.resends = @ - 1]
    /\ \/ cl[c].state = "syn_sent" /\ ClientSends({SynOf(c)})
       \/ cl[c].state = "open"     /\ ClientSends({RequestOf(c, cl[c])})
       \/ cl[c].state = "closing"  /\ ClientSends({FinOf(c, cl[c])})
    /\ ServerUnchanged /\ UNCHANGED <<s2c, cl>>

\* The application drains the receive buffer; TCP announces the window.
AppRead(c) ==
    /\ cl[c].state = "open"
    /\ cl[c].unread > 0
    /\ cl' = [cl EXCEPT ![c].unread = 0]
    /\ ClientSends({AckOf(c, cl'[c])})
    /\ ServerUnchanged /\ UNCHANGED <<s2c, env>>

Close(c) ==
    /\ cl[c].state = "finished"
    /\ cl' = [cl EXCEPT ![c].state = "closing"]
    /\ ClientSends({FinOf(c, cl[c])})
    /\ ServerUnchanged /\ UNCHANGED <<s2c, env>>

Abort(c) ==
    /\ env.aborts > 0
    /\ env' = [env EXCEPT !.aborts = @ - 1]
    /\ cl[c].state = "open"
    /\ cl' = [cl EXCEPT ![c].state = "aborted"]
    /\ ClientSends({FromClient(c, {"RST"}, 2, cl[c], 0)})
    /\ ServerUnchanged /\ UNCHANGED s2c

\* What the client accepts of a segment: the bytes from rcv_nxt on, as far as
\* its buffer has room.
Skip(k, m) == WSub(k.rcv_nxt, m.seq)

Acceptable(k, m) == Skip(k, m) <= m.len

Taken(k, m) == MinOf(m.len - Skip(k, m), env.buffer - k.unread)

FinTaken(k, m) == "FIN" \in m.flags /\ Taken(k, m) = m.len - Skip(k, m)

Receive(k, m) ==
    [k EXCEPT
       !.state   = IF FinTaken(k, m) THEN "finished" ELSE @,
       !.rcv_nxt = WAdd(@, Taken(k, m) + (IF FinTaken(k, m) THEN 1 ELSE 0)),
       !.unread  = @ + Taken(k, m),
       !.stream  = @ \o [i \in 1 .. Taken(k, m) |->
                           [rid |-> m.rid, off |-> m.off + Skip(k, m) + i - 1]]]

ClientRecv(m) ==
    LET c == m.client
        k == cl[c]
    IN
    \/ /\ k.state = "syn_sent" /\ m.flags = {"SYN", "ACK"}
       /\ cl' = [cl EXCEPT ![c].state = "open", ![c].rcv_nxt = WAdd(m.seq, 1)]
       /\ ClientSends({AckOf(c, cl'[c]), RequestOf(c, cl'[c])})
    \/ /\ k.state = "open" /\ "RST" \in m.flags
       /\ WSub(m.seq, k.rcv_nxt) <= env.buffer - k.unread
       /\ cl' = [cl EXCEPT ![c].state = "reset"]
       /\ UNCHANGED c2s
    \/ /\ k.state = "open" /\ m.len > 0
       /\ cl' = IF Acceptable(k, m) THEN [cl EXCEPT ![c] = Receive(k, m)]
                ELSE cl
       /\ ClientSends({AckOf(c, cl'[c])})
    \/ /\ k.state \in {"finished", "closing"} /\ m.len > 0
       /\ ClientSends({AckOf(c, k)})
       /\ UNCHANGED cl
    \/ /\ k.state # "syn_sent" \/ m.flags # {"SYN", "ACK"}
       /\ k.state = "open" /\ "RST" \in m.flags =>
            WSub(m.seq, k.rcv_nxt) > env.buffer - k.unread
       /\ m.len = 0 \/ k.state \notin {"open", "finished", "closing"}
       /\ UNCHANGED <<cl, c2s>>

-----------------------------------------------------------------------------
(* The network.  A delivered segment leaves it, or stays for a second       *)
(* delivery within the bound of the environment.                            *)

Delivered(net, m, net2, env2) ==
    \/ net2 = net \ {m} /\ env2 = env
    \/ /\ env.dups > 0
       /\ net2 = net
       /\ env2 = [env EXCEPT !.dups = @ - 1]

\* The initial number that a client counts from, if it has one.
Based(c) == cl[c].state \notin {"closed", "syn_sent"}

Finished(k) == k.state \in {"finished", "closing"}

Base(k) == WSub(k.rcv_nxt, Len(k.stream) + (IF Finished(k) THEN 2 ELSE 1))

\* rand_u32 does not return a number that one of the two ends counts from.
FreshIss(m) ==
    "SYN" \in m.flags =>
       /\ conn.active => conn'.iss # conn.iss
       /\ Based(m.client) => conn'.iss # Base(cl[m.client])

DeliverToServer ==
    \E m \in c2s :
      /\ Process(m) /\ FreshIss(m)
      /\ conn'.resp = NoResp \/ conn'.resp.total = env.length
      /\ Delivered(c2s, m, c2s', env')
      /\ UNCHANGED cl

DeliverToClient ==
    \E m \in s2c :
      /\ ClientRecv(m)
      /\ Delivered(s2c, m, s2c', env')
      /\ ServerUnchanged

Lose ==
    /\ env.losses > 0
    /\ env' = [env EXCEPT !.losses = @ - 1]
    /\ \/ \E m \in c2s : c2s' = c2s \ {m} /\ UNCHANGED s2c
       \/ \E m \in s2c : s2c' = s2c \ {m} /\ UNCHANGED c2s
    /\ ServerUnchanged /\ UNCHANGED cl

PumpRuns == (PumpSegment \/ PumpDone) /\ UNCHANGED <<cl, c2s, env>>

ReadFails ==
    /\ env.badReads > 0
    /\ env' = [env EXCEPT !.badReads = @ - 1]
    /\ PumpFails
    /\ UNCHANGED <<cl, c2s>>

TickRuns == Tick /\ UNCHANGED <<cl, c2s, env>>

TimePasses ==
    /\ env.timely => /\ c2s = {} /\ s2c = {} /\ ~RtoFired
                 /\ \A c \in Clients : cl[c].state = "open" => cl[c].unread = 0
    /\ Elapse
    /\ UNCHANGED <<cl, c2s, env>>

ClientActs ==
    \E c \in Clients :
      Open(c) \/ Resend(c) \/ AppRead(c) \/ Close(c) \/ Abort(c)

TransferNext ==
    \/ DeliverToServer \/ DeliverToClient \/ Lose
    \/ PumpRuns \/ ReadFails \/ TickRuns \/ TimePasses
    \/ ClientActs

TransferSpec == TransferInit /\ [][TransferNext]_vars

-----------------------------------------------------------------------------
(* Properties *)

\* However segments are lost, repeated and reordered, and however often tick
\* rewinds, what a client's application reads is a prefix of the response to
\* its request: byte i of the stream is byte i of the first response built.
StreamIntegrity ==
    \A c \in Clients : \A i \in 1 .. Len(cl[c].stream) :
       cl[c].stream[i] = [rid |-> 1, off |-> i - 1]

\* "Fully acked (incl. FIN): free the body": the server lets go of a response
\* only when the client it was for, one of those that come here, has all of it.
FreedOnlyWhenDelivered ==
    [][conn.resp # NoResp /\ conn'.resp = NoResp /\ conn'.active
         /\ conn.client \in env.users /\ conn'.client = conn.client /\ conn'.snd_una = conn.snd_nxt
       => Finished(cl[conn.client])]_vars

-----------------------------------------------------------------------------
(* Fairness: handlers run to completion, time passes and the loop ticks on  *)
(* every iteration (dataplane.rs, run_periodic); the network delivers what  *)
(* it does not lose; the client's TCP and application go on.                *)

Fairness ==
    /\ WF_vars(PumpRuns) /\ WF_vars(TickRuns) /\ WF_vars(TimePasses)
    /\ WF_vars(DeliverToServer) /\ WF_vars(DeliverToClient)
    /\ \A c \in Clients : WF_vars(Open(c)) /\ WF_vars(AppRead(c)) /\ WF_vars(Close(c))

FairSpec == TransferSpec /\ Fairness

\* "a stuck transfer must not wedge the shared thread": whatever the client,
\* the network and the flash do, the connection is given up in the end.  A read
\* that fails with nothing outstanding stops even the retransmit timer: only
\* the watchdog is left.
ConnReleased == conn.active ~> ~conn.active

\* In an environment without faults, fast enough for the timers, that reorders
\* segments, every client that opens a connection gets all of its response:
\* out-of-order arrival costs retransmissions, never the transfer.
Untroubled ==
    /\ env.timely
    /\ env.losses + env.dups + env.resends + env.aborts + env.badReads = 0

TransferCompletes ==
    Untroubled =>
      \A c \in Clients : cl[c].state = "syn_sent" ~> cl[c].state = "closing"

-----------------------------------------------------------------------------
(* The promise of ByteStream, for each client *)

StreamStatus(c) ==
    CASE Finished(cl[c]) -> "ended"
      [] cl[c].state \in {"reset", "aborted"} -> "cut"
      [] OTHER -> "reading"

Reader(c) == INSTANCE ByteStream WITH
    length <- env.length,
    got    <- Len(cl[c].stream),
    status <- StreamStatus(c)

\* Every client of the server gets the promise of ByteStream: the stream only
\* grows, ends only at the end of the response, and never ends after a reset.
DeliversByteStream ==
    /\ \A c \in Clients : Reader(c)!StreamInit
    /\ [][\A c \in Clients : [Reader(c)!StreamNext]_(Reader(c)!streamVars)]_vars
=============================================================================
