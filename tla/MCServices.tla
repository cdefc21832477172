----------------------------- MODULE MCServices -----------------------------
(***************************************************************************)
(* Builds of the firmware with the lwIP bridge, with the mDNS reflector    *)
(* and with the TCP proxy (the bridge takes every packet, so it excludes   *)
(* the others).  Where one of them runs the others have nothing to do.     *)
(***************************************************************************)
EXTENDS Bridge, Reflector, Proxy

CONSTANTS a, b, east, west, query, answer

Good == [create |-> "ok", users |-> {a}, idlers |-> {}, renew |-> {},
         losses |-> 0, cuts |-> 0, nvs |-> 0,
         range |-> [kind |-> "none"], total |-> 1]

MCRanges ==
    {[kind |-> k] : k \in {"none", "bad"}}
    \cup [kind : {"from"}, a : 0 .. 3] \cup [kind : {"suffix"}, n : 0 .. 3]
    \cup [kind : {"both"}, a : 0 .. 3, b : 0 .. 3]

\* Two users; lost packets; a silent connection in front of a user, with a
\* lost packet or a renewed tunnel; power cuts; a bridge that fails or panics,
\* with an error of the flash; all kinds of ranges.
MCCircumstances ==
    {[Good EXCEPT !.users = {a, b}],
     [Good EXCEPT !.losses = 2, !.renew = {a}],
     [Good EXCEPT !.idlers = {b}, !.losses = 1],
     [Good EXCEPT !.idlers = {b}, !.renew = {a}],
     [Good EXCEPT !.cuts = 3],
     [Good EXCEPT !.create = "err", !.cuts = 5, !.nvs = 1],
     [Good EXCEPT !.create = "panic", !.cuts = 2, !.nvs = 2]}
    \cup {[Good EXCEPT !.range = r, !.total = n] : r \in MCRanges, n \in {0, 2}}

MCPayloads == [l \in {east, west} |-> IF l = east THEN {query} ELSE {answer}]

\* One user, alone, also with a send buffer for two datagrams; a connection given up, with a host that is down; a user
\* whose packets are lost, repeated and reordered; two users at once.
MCProxyCases ==
    LET calm == [users |-> {a}, parts |-> 1, accepts |-> TRUE, reorders |-> FALSE,
                 room |-> 4, losses |-> 0, repeats |-> 0, resends |-> 0, aborts |-> 0]
    IN {calm, [calm EXCEPT !.room = 3], [calm EXCEPT !.accepts = FALSE],
        [calm EXCEPT !.accepts = FALSE, !.aborts = 1, !.resends = 1],
        [calm EXCEPT !.reorders = TRUE, !.repeats = 2, !.losses = 1],
        [calm EXCEPT !.users = {a, b}, !.parts = 2]}

NoProxy == ProxyStart([users |-> {}, parts |-> 1, accepts |-> TRUE, reorders |-> FALSE,
                       room |-> 1, losses |-> 0, repeats |-> 0, resends |-> 0, aborts |-> 0])

ServicesInit ==
    \/ Init /\ MdnsStart(0, Lans) /\ NoProxy
    \/ Start(Good, "off") /\ MdnsInit /\ NoProxy
    \/ Start(Good, "off") /\ MdnsStart(0, Lans) /\ ProxyInit

ServicesNext ==
    \/ Next /\ UNCHANGED <<mdnsVars, proxyVars>>
    \/ MdnsNext /\ UNCHANGED <<vars, proxyVars>>
    \/ ProxyNext /\ UNCHANGED <<vars, mdnsVars>>

Services ==
    /\ ServicesInit /\ [][ServicesNext]_<<vars, mdnsVars, proxyVars>>
    /\ Fairness /\ MdnsFairness /\ ProxyFairness

\* The proxy alone.
ProxyOnly ==
    /\ Start(Good, "off") /\ MdnsStart(0, Lans) /\ ProxyInit
    /\ [][ServicesNext]_<<vars, mdnsVars, proxyVars>> /\ ProxyFairness
=============================================================================
