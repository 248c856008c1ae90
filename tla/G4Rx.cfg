\* At most as many frames on their way as there are buffers.
CONSTANTS
  NBuf = 3
  BufMax = 3
  MbCap = 3
  NFrames = 6
  Lens <- MCLens
  Backlog = 3
SPECIFICATION FairSpec
INVARIANTS
  TypeOK
  FramesInOrder
PROPERTIES
  ReadIsStable
  AllHandled
CHECK_DEADLOCK FALSE
