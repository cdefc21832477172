-------------------------------- MODULE MCTcp --------------------------------
(***************************************************************************)
(* The server in two companies: clients over a network (TcpTransfer), and  *)
(* the client of another dongle over a tunnel (OutboundFetch).  A          *)
(* behaviour has one of them, from its first state on; the fairness of     *)
(* either module is stated for the behaviours that have its company.       *)
(***************************************************************************)
EXTENDS MCTcpTransfer, MCOutboundFetch

Nobody == [Still EXCEPT !.users = {}]

NoClients ==
    /\ cl = [c \in Clients |-> [state |-> "closed", rcv_nxt |-> 0,
                                unread |-> 0, stream |-> <<>>]]
    /\ c2s = {} /\ env = Nobody

NoFetch == tc = NewClient /\ sent = {} /\ path = InOrder

TcpInit == (TransferInit /\ NoFetch) \/ (FetchInit /\ NoClients)

Clientele == env.users # {}

Transfers(A) == Clientele /\ A /\ UNCHANGED <<tc, sent, path>>

Fetches(A) == ~Clientele /\ A /\ UNCHANGED <<cl, c2s, env>>

TcpNext == Transfers(TransferNext) \/ Fetches(FetchNext)

tcpMCVars == <<conn, pump, routed, s2c, cl, c2s, env, tc, sent, path>>

TcpSpec == TcpInit /\ [][TcpNext]_tcpMCVars

TcpFairSpec ==
    /\ TcpSpec
    /\ WF_tcpMCVars(Transfers(PumpRuns))
    /\ WF_tcpMCVars(Transfers(TickRuns))
    /\ WF_tcpMCVars(Transfers(TimePasses))
    /\ WF_tcpMCVars(Transfers(DeliverToServer))
    /\ WF_tcpMCVars(Transfers(DeliverToClient))
    /\ \A c \in Clients :
         /\ WF_tcpMCVars(Transfers(Open(c)))
         /\ WF_tcpMCVars(Transfers(AppRead(c)))
         /\ WF_tcpMCVars(Transfers(Close(c)))
    /\ WF_tcpMCVars(Fetches(Start))
    /\ WF_tcpMCVars(Fetches(ToClient))
    /\ WF_tcpMCVars(Fetches(ToServer))
    /\ WF_tcpMCVars(Fetches(ServerRuns))
=============================================================================
