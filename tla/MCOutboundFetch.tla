--------------------------- MODULE MCOutboundFetch ---------------------------
EXTENDS OutboundFetch

InOrder == [dups |-> 0, losses |-> 0, ordered |-> TRUE]

Unordered == [InOrder EXCEPT !.ordered = FALSE]

\* Calm for the completion, the rest for what may be in the response.
OrderedPaths == {InOrder}

UnorderedPaths ==
    {[Unordered EXCEPT !.dups = 1], [Unordered EXCEPT !.losses = 1]}
=============================================================================
