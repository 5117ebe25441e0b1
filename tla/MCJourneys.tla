----------------------------- MODULE MCJourneys -----------------------------
EXTENDS Journeys

\* A drive and, after a pause longer than the gap, another; a long front clip
\* around a short rear one; clips left on the camera between two others; two
\* clips far apart.
MCLayouts == {
    [start |-> <<0, 2, 8>>, end |-> <<2, 4, 9>>, omitted |-> {}, far |-> {}, min |-> 2, new |-> {1, 2}],
    [start |-> <<0, 1, 7>>, end |-> <<6, 2, 9>>, omitted |-> {}, far |-> {}, min |-> 1, new |-> {1, 3}],
    [start |-> <<0, 3, 6>>, end |-> <<2, 4, 8>>, omitted |-> {<<0, 1>>, <<4, 5>>, <<4, 6>>}, far |-> {}, min |-> 1, new |-> {2}],
    [start |-> <<0, 2, 4>>, end |-> <<2, 4, 6>>, omitted |-> {}, far |-> {{2, 3}}, min |-> 1, new |-> {2, 3}]}
=============================================================================
