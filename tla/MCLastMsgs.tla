----------------------------- MODULE MCLastMsgs -----------------------------
\* Four routes for three channels: the table fills up with one route left out.
EXTENDS LastMsgsSpec, TLC

CONSTANTS empty, r1, r2, r3, r4, m1, m2

MCRoutes == {empty, r1, r2, r3, r4}
MCMsgs   == {m1, m2}
Symmetry == Permutations({r1, r2, r3, r4}) \cup Permutations(MCMsgs)
=============================================================================
