SPECIFICATION FairSpec
CONSTANTS
  Size = 130
  PeerLens <- MCPeerLens
  ServerLens <- MCServerLens
  Masks <- MCMasks
  MaxFrames = 2
  MaxSends = 1
INVARIANTS
  TypeOK
  FramesSayWhatIsMeant
  MessagesInOrder
  ClosedOnceAndLast
PROPERTIES
  StatusTellsWhoBegan
  ClosesEnd
CHECK_DEADLOCK FALSE
