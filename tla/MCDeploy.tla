------------------------------- MODULE MCDeploy -------------------------------
EXTENDS Deploy, FiniteSets, TLC

CONSTANTS v1, v2, v3, m1, m2

\* Two releases with a migration each; v1 is older than both.
Added == v1 :> {} @@ v2 :> {m1} @@ v3 :> {m1, m2}

\* Bound: behaviours are not followed past a second image applied blind, nor past
\* a third migration task at a time.
Bounded == Cardinality(blind) <= 1 /\ Cardinality(upgrades) <= 2

Symmetry == Permutations(Operators)

=============================================================================
