---------------------------- MODULE MCWsConnection ----------------------------
\* Lengths on both sides of what seven and sixteen bits hold and of the buffer;
\* a mask whose bytes could be taken for a length.
EXTENDS WsConnection

MCPeerLens   == {2, 126, 131, 65536}
MCServerLens == {125, 126, 65536}
MCMasks      == {<<126, 255, 127, 0>>}
=============================================================================
