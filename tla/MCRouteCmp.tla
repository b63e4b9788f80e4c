----------------------------- MODULE MCRouteCmp -----------------------------
\* Every pattern of at most four characters against every text of at most
\* three, over two letters and the wildcard (a published route may hold '*').
EXTENDS RouteCmp, SequencesExt

MCChar == {"a", "b", "*"}
MCSubs == SeqOf(MCChar, 4)
MCPubs == SeqOf(MCChar, 3)

=============================================================================
