SPECIFICATION Spec
CONSTANTS
  Size = 130
  PeerLens <- MCPeerLens
  ServerLens <- MCServerLens
  Masks <- MCMasks
  MaxFrames = 2
  MaxSends = 1
INVARIANT
  TerminatorInBuffer
CHECK_DEADLOCK FALSE
