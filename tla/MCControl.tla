------------------------------ MODULE MCControl ------------------------------
(* Control with three-bit addresses and netmaps whose rules overlap, miss    *)
(* the node, or use every form of address pattern.                           *)
EXTENDS Control

Rule(src, dst) == [src |-> src, dst |-> dst]

SomeAcls ==
    {NoAcl, Acl(<<>>),
     Acl(<<Rule({Star}, {Host(2)})>>),
     Acl(<<Rule({Host(1), Other}, {Star}), Rule({Block(6, 2)}, {Block(5, 2)})>>),
     Acl(<<Rule({Block(0, 1)}, {Block(4, 4), Other}), Rule({Host(7)}, {Block(3, 0)})>>)}

SomePeers ==
    <<[name |-> "p", key |-> TRUE, disco |-> TRUE,
       addresses |-> <<[v4 |-> FALSE, ip |-> 0], [v4 |-> TRUE, ip |-> 3]>>],
      [name |-> "q", key |-> TRUE, disco |-> FALSE, addresses |-> <<>>]>>

MCNetmaps == {[acl |-> a, peers |-> SomePeers] : a \in SomeAcls}
=============================================================================
