----------------------------- MODULE MCClasses -----------------------------
\* Small instances of Classes for TLC.
EXTENDS Classes, TLC

\* Bound: behaviours are not followed past the third row of visitors.
Bounded ==
    Cardinality({u \in SignupIds : signups[u] # Unborn})
        + Cardinality({q \in RequestIds : requests[q] # Unborn}) <= 2

Symmetry ==
    Permutations(Clients) \cup Permutations(ClassIds) \cup Permutations(SignupIds)
        \cup Permutations(Slugs)

=============================================================================
