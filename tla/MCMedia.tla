------------------------------- MODULE MCMedia -------------------------------
\* Small instances of Media for TLC.
EXTENDS Media

CONSTANTS s1, s2, m1

\* Two slugs that are one for their first sixty characters.
OneStem == [s \in {s1, s2} |-> m1]
=============================================================================
