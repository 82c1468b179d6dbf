----------------------------- MODULE MCBallots -----------------------------
\* Instances of Ballots for TLC.
EXTENDS Ballots, TLC

CONSTANTS b1, m1, m2, r1, r2, w1, w2, d1

Symmetry == Permutations({r1, r2}) \cup Permutations({m1, m2})
=============================================================================
