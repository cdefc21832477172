---------------------------- MODULE MCSerialLink ----------------------------
EXTENDS SerialLink

Calm == [lengths |-> {1, 2}, requests |-> 4, resets |-> 0, prompt |-> TRUE]

\* A device that answers in time; one that may be late and reset; and requests
\* that do not fit its buffer as well.
AllSessions ==
    {Calm,
     [Calm EXCEPT !.requests = 3, !.resets = 1, !.prompt = FALSE],
     [lengths |-> {1, 2, 3, 6}, requests |-> 2, resets |-> 1, prompt |-> FALSE]}

LateSessions == {[Calm EXCEPT !.requests = 3, !.prompt = FALSE]}
=============================================================================
