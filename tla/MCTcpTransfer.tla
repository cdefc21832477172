---------------------------- MODULE MCTcpTransfer ----------------------------
EXTENDS TcpTransfer

CONSTANTS a, b

Still == [users |-> {a}, buffer |-> 2, length |-> 3,
          resends |-> 0, aborts |-> 0, dups |-> 0, losses |-> 0, badReads |-> 0,
          timely |-> FALSE]

Timed == [Still EXCEPT !.timely = TRUE]

\* A repeated segment, or retransmissions of the client with a loss, or an
\* abort, or a failing read, or a second client, all with timers firing at any time; or
\* retransmissions of a client whose buffer is larger than CWND.
SafetyEnvs ==
    {[Still EXCEPT !.dups = 1],
     [Still EXCEPT !.length = 2, !.resends = 1, !.losses = 1],
     [Timed EXCEPT !.buffer = 3, !.resends = 1],
     [Still EXCEPT !.length = 2, !.aborts = 1],
     [Still EXCEPT !.length = 2, !.badReads = 1],
     [Still EXCEPT !.length = 1, !.users = {a, b}]}

\* No faults at all, or losses, repetitions and failing reads under arbitrary
\* timers.
LiveEnvs ==
    {[Timed EXCEPT !.buffer = 4, !.length = 4],
     [Still EXCEPT !.length = 2, !.losses = 1],
     [Still EXCEPT !.length = 2, !.badReads = 1],
     [Still EXCEPT !.length = 1, !.losses = 1, !.dups = 1]}
=============================================================================
