------------------------------ MODULE MCSession ------------------------------
\* One frame in each direction, so that sends block; four requests, as many as
\* it takes to fill both directions of a connection and both ends' hands.  The
\* routes are "" and one other: each matches itself.
EXTENDS Session

MCMatches(s, r) == s = r
=============================================================================
