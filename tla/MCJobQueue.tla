----------------------------- MODULE MCJobQueue -----------------------------
\* Instances of JobQueue for TLC.
EXTENDS JobQueue, TLC

CONSTANTS j1, j2, w1, w2

Symmetry == Permutations({w1, w2})
=============================================================================
