------------------------------- MODULE MCRltp -------------------------------
EXTENDS Rltp

\* Initial numbers that are the same and such that the first text makes them so,
\* and a msg that happens to hold a number.
NearSeqs == {10, 11}
SomeGarbage == {0, 7}
=============================================================================
