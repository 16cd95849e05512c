--------------------------- MODULE MCViewCounter ---------------------------
\* All requests are repetitions by one viewer of one of two posts, which may
\* both have buffered views; DedupExpires lets each of them be admitted.
EXTENDS ViewCounter, TLC

CONSTANTS p1, p2

MCPostOf == [r \in Requests |-> p1]
MCViewerOf == [r \in Requests |-> 1]

Symmetry == Permutations(Requests) \cup Permutations(Flushers)

=============================================================================
