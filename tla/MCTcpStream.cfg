SPECIFICATION FairSpec
CONSTANTS
  Messages <- MCMessages
  Size = 12
  MaxSent = 2
  MaxTimeouts = 1
INVARIANTS
  TypeOK
  FramesInOrder
  WaitsOnlyForTheSender
PROPERTIES
  EndIsRealOrEmptyFrame
  CutFrameIsNoTimeout
  FramesArrive
CHECK_DEADLOCK FALSE
