------------------------------- MODULE MCRelay -------------------------------
EXTENDS Relay

CONSTANTS a, b, c

Dongle == [node |-> "dongle", users |-> {a}, allowed |-> {a, b}, known |-> {a, c},
           knockers |-> {}, losses |-> 0, closes |-> 0, noise |-> 0, giveUps |-> 0]
Browser == [Dongle EXCEPT !.node = "browser", !.users = {a, b}]

\* Two users of the dongle and a lost packet; visitors that fill its table; a
\* connection that is refused or closed and frames of other kinds; two users
\* of the browser node; visitors and a renewed key, or other frames, there; a
\* connection that either node gives up, and a lost packet.
MCCases ==
    {[Dongle EXCEPT !.users = {a, b}, !.losses = 1],
     [Dongle EXCEPT !.knockers = {b, c}],
     [Dongle EXCEPT !.closes = 1, !.noise = 1],
     [Browser EXCEPT !.losses = 1],
     [Browser EXCEPT !.users = {a}, !.knockers = {a, b}, !.losses = 1],
     [Browser EXCEPT !.users = {a}, !.closes = 1, !.noise = 1]}
    \cup {[n EXCEPT !.users = {a}, !.giveUps = 1, !.losses = 1] : n \in {Dongle, Browser}}
=============================================================================
