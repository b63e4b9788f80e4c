------------------------------ MODULE MCServer ------------------------------
\* The inotify server, one listener and two client slots for two peers, or two
\* listeners and one client slot (MCServerFull.cfg); the routes "", "*" and the
\* log route.
EXTENDS Server, TLC

CONSTANTS p1, p2, d1, d2, empty, all, log, m1

MCPeers2 == {p1, p2}
MCDucqs1 == {d1}
MCDucqs2 == {d1, d2}
MCRoutes1 == {empty}
MCRoutes3 == {empty, all, log}

\* RouteCmp on these routes: "*" stands for all of them
MCMatches(s, r) == s = all \/ s = r

Symmetry2 == Permutations(MCPeers2) \cup Permutations(MCDucqs2)
Symmetry1 == Permutations(MCPeers2)
=============================================================================
