----------------------------- MODULE MCModeration -----------------------------
\* Small instances of Moderation for TLC.
EXTENDS Moderation, TLC

Symmetry == Permutations(Requests) \cup Permutations(Comments) \cup Permutations(Users)
=============================================================================
