----------------------------- MODULE MCDataplane -----------------------------
EXTENDS Dataplane

CONSTANTS a, b, lan, wan

Quiet == [paths |-> {lan}, probers |-> {a}, movers |-> {}, indexes |-> 4,
          reboots |-> 0, dups |-> 0, losses |-> 0,
          errors |-> 0, offers |-> 0, timely |-> FALSE]

\* Both nodes probe and initiate; or one does, while the other moves or reboots
\* and a datagram is repeated; or the other is only offered at run time, and a
\* response may be damaged; or it has two endpoints, known or offered one by
\* one, and may move.
SafetyWorlds ==
    {[Quiet EXCEPT !.probers = {a, b}],
     [Quiet EXCEPT !.movers = {b}, !.reboots = 1, !.dups = 1],
     [Quiet EXCEPT !.probers = {}, !.offers = 1, !.losses = 1, !.indexes = 3],
     [Quiet EXCEPT !.probers = {}, !.offers = 2, !.losses = 1, !.paths = {lan, wan},
                   !.timely = TRUE],
     [Quiet EXCEPT !.movers = {b}, !.paths = {lan, wan}, !.timely = TRUE]}

\* Losses, a damaged response and a failing send on a fast network, with one
\* endpoint or two; or a peer that moves while datagrams are late, or that moves
\* on two paths.
LiveWorlds ==
    {[Quiet EXCEPT !.indexes = 6, !.losses = 2, !.errors = 1, !.timely = TRUE],
     [Quiet EXCEPT !.indexes = 6, !.losses = 1, !.errors = 1, !.timely = TRUE,
                   !.paths = {lan, wan}],
     [Quiet EXCEPT !.indexes = 3, !.movers = {b}],
     [Quiet EXCEPT !.movers = {b}, !.paths = {lan, wan}, !.timely = TRUE]}

\* Both nodes probe and initiate on a fast network.
CrossingWorlds ==
    {[Quiet EXCEPT !.probers = {a, b}, !.indexes = 6, !.timely = TRUE]}
=============================================================================
